---- MODULE Spec2Model ----
(***************************************************************************)
(* HelpScoutClient (src/unnamed/part_000, the helpscout-client.ts of the   *)
(* repository): token authentication, the axios interceptor chain, the     *)
(* retry executor, the error normalizer and the cached verbs of the        *)
(* facade, as a state machine; and HelpScoutAPIConstraints                 *)
(* (src/src/utils/api-constraints.ts), the validation of a tool call.      *)
(*                                                                         *)
(* One step of the model is one run-to-completion turn of the event loop:  *)
(* the code between two suspension points (await of the token exchange,    *)
(* await of the upstream response, await of sleep).                        *)
(***************************************************************************)
EXTENDS Integers, Sequences, FiniteSets, TLC

VARIABLES
    config,          \* config.helpscout: apiKey, clientId, clientSecret (read-only)
    now,             \* Date.now(), in ms
    accessToken,     \* HelpScoutClient.accessToken
    tokenExpiresAt,  \* HelpScoutClient.tokenExpiresAt
    cache,           \* the cache store: (cacheKey, params) -> entry
    active,          \* the callers the embedding application runs
    started,         \* number of facade calls issued so far
    callNo,          \* per caller: which of the issued calls it is executing
    callBudget,      \* number of facade calls the application issues
    failBudget,      \* number of requests the network may still fail
    pc,              \* per caller: where its call is suspended
    req,             \* per caller: the facade call being executed
    attempt,         \* per caller: executeWithRetry's loop variable
    hist,            \* per caller: outcome of every attempt of the call
    delays,          \* per caller: argument of every sleep() of the call
    wakeAt,          \* per caller: when the pending sleep() resolves
    header,          \* per caller: Authorization header of the last dispatch
    consulted,       \* per caller: the call has read the cache store
    exchanges,       \* per caller: token-endpoint requests made by the call
    lastError,       \* per caller: executeWithRetry's lastError
    result,          \* per caller: what the finished call delivered
    pool,            \* the transport agents: this.httpAgent/httpsAgent and the client's
    declaredExpiry,  \* the instant the token service declared the cached token to end at
    unauthorized,    \* per caller: its previous call was answered 401
    normalized,      \* per caller: runs of transformError during the call
    toolCall,        \* the ToolCallContext handed to validateToolCall
    validation       \* the ValidationResult it returned

vars == <<config, now, accessToken, tokenExpiresAt, cache, active, started,
          callNo, callBudget, failBudget, pc, req, attempt, hist, delays, wakeAt,
          header, consulted, exchanges, lastError, result, pool, declaredExpiry,
          unauthorized, normalized, toolCall, validation>>

tokenVars == <<accessToken, tokenExpiresAt>>

-----------------------------------------------------------------------------
(* Bounds of the model *)

\* calls issued in one behaviour of SpecSeq
MaxCalls == 2

\* clearIdleConnections() invocations in one behaviour of SpecPool
MaxClears == 1

\* calls issued in one behaviour of SpecConc
MaxConcurrentCalls == 4

\* largest attempt index calculateRetryDelay is applied to in SpecBackoff
MaxBackoffAttempt == 5

\* closePool() invocations in one behaviour of SpecShutdown
MaxCloses == 2

\* calls issued in one behaviour of SpecIndep
MaxIndependentCalls == 2

\* calls issued in one behaviour of SpecPost
MaxPosts == 2

\* calls issued in one behaviour of SpecReads
MaxReads == 3

-----------------------------------------------------------------------------
(* Values *)

NULL == "null"
UNDEFINED == "undefined"
\* parseInt's NaN, encoded as an integer no parse yields
NaN == -1
EmptyBody == ""

Callers == {"a", "b"}

\* An endpoint path is the sequence of its segments: <<"conversations", "1">> is /conversations/1
Mailboxes == <<"mailboxes">>
Endpoints == {Mailboxes, <<"conversations", "1">>}
AttachmentEndpoint == <<"conversations", "1", "attachments", "2", "data">>
\* endpoints with and without the segments getDefaultCacheTtl looks for
TtlEndpoints ==
    {Mailboxes, <<"mailboxes", "1", "conversations">>, <<"conversations", "1">>,
     <<"conversations", "1", "threads">>, <<"users">>}
AllEndpoints == Endpoints \cup {<<"conversations">>, AttachmentEndpoint} \cup TtlEndpoints

\* endpoint.includes('/' + segment)
Includes(endpoint, segment) == \E i \in DOMAIN endpoint : endpoint[i] = segment
PageOneSizeOne == "page=1&size=1"
ParamSets == {PageOneSizeOne, UNDEFINED}

\* the (endpoint, params, cacheOptions) the application calls get with
GetInputs ==
    { <<Mailboxes, PageOneSizeOne, <<>> >>,
      <<<<"conversations", "1">>, UNDEFINED, <<>> >>,
      <<<<"conversations", "1">>, UNDEFINED, <<0>> >>,
      <<<<"conversations", "1">>, UNDEFINED, <<60>> >> }
Payloads == {"d1", "d2", EmptyBody}
ErrorBody == "err"
\* cacheOptions: <<>> when no ttl is given, <<ttl>> otherwise
CacheOptions == {<<>>, <<0>>, <<60>>}

AbsentHeader == <<>>
RetryAfterHeaders == {AbsentHeader, <<"5">>, <<"1", "2", "0">>, <<"W", "e", "d">>}
ResourceIdHeaders == {AbsentHeader, <<"1", "7">>}
\* Resource-ID headers of a post: absent, numbers, a number followed by text, text
PostResourceIds ==
    ResourceIdHeaders \cup {<<"0">>, <<"4", "2", "x">>, <<"a", "b", "c">>}

\* config.helpscout. apiKey is the sequence of its parts: <<"Bearer ", "pat">> is
\* 'Bearer pat', <<>> is an unset key.
Configs ==
    { [apiKey |-> <<"Bearer ", "pat">>, clientId |-> "id", clientSecret |-> "secret"],
      [apiKey |-> <<>>, clientId |-> "id", clientSecret |-> "secret"],
      [apiKey |-> <<"key">>, clientId |-> "id", clientSecret |-> UNDEFINED] }

IssuedTokens == {"t1", "t2"}
ExpiresIn == {30, 120}

Min(a, b) == IF a <= b THEN a ELSE b

Last(h) == h[Len(h)]

ServerError(st) == st >= 500 /\ st <= 599
Success(st) == st >= 200 /\ st <= 299

RECURSIVE Pow2(_)
Pow2(n) == IF n = 0 THEN 1 ELSE 2 * Pow2(n - 1)

-----------------------------------------------------------------------------
(* JavaScript primitives the client relies on *)

Digits == {"0", "1", "2", "3", "4", "5", "6", "7", "8", "9"}

DigitValue(ch) ==
    CASE ch = "0" -> 0 [] ch = "1" -> 1 [] ch = "2" -> 2 [] ch = "3" -> 3
      [] ch = "4" -> 4 [] ch = "5" -> 5 [] ch = "6" -> 6 [] ch = "7" -> 7
      [] ch = "8" -> 8 [] ch = "9" -> 9

RECURSIVE ParseDigits(_, _)
ParseDigits(s, acc) ==
    IF s = <<>> \/ Head(s) \notin Digits THEN acc
    ELSE ParseDigits(Tail(s), 10 * acc + DigitValue(Head(s)))

\* parseInt(s, 10): the leading decimal digits of s, NaN when there are none
parseInt(s) ==
    IF s = <<>> \/ Head(s) \notin Digits THEN NaN ELSE ParseDigits(s, 0)

\* header || '60'
OrSixty(hdr) == IF hdr = AbsentHeader THEN <<"6", "0">> ELSE hdr

JsTimes(a, b) == IF a = NaN \/ b = NaN THEN NaN ELSE a * b

\* Math.min
MathMin(a, b) == IF a = NaN \/ b = NaN THEN NaN ELSE Min(a, b)

\* if (value): undefined, null and the empty string are falsy
Truthy(v) == v \notin {UNDEFINED, NULL, EmptyBody}

\* a timer that fires in the turn that set it
TimerImmediate(ms) == 0

\* setTimeout(resolve, ms): a delay that is NaN or below 1 is set to 1
TimerMs(ms) == IF ms = NaN THEN 1 ELSE IF ms < 1 THEN 1 ELSE ms

-----------------------------------------------------------------------------
(* Retry policy *)

retries == 3
retryDelay == 1000
maxRetryDelay == 10000

\* Math.random() in [0, 1), sampled in hundredths
RandomScale == 100
RandomSamples == {0, 99}

\* a policy that retries nothing
retryConditionNever(e) == FALSE

\* What executeWithRetry can read of a caught value e: e.response, e.code
retryCondition(e) ==
    \/ ~e.hasResponse
    \/ e.code = "ECONNABORTED"
    \/ (e.status >= 500 /\ e.status < 600)
    \/ e.status = 429

\* every value Math.random() can take, in hundredths
RandomDraws == 0 .. (RandomScale - 1)

\* a backoff without the cap
calculateRetryDelayUncapped(att, baseDelay, maxDelay, rnd) ==
    LET exponentialDelay == baseDelay * Pow2(att)
        jitter == (rnd * exponentialDelay) \div (10 * RandomScale)
    IN  exponentialDelay + jitter

calculateRetryDelay(att, baseDelay, maxDelay, rnd) ==
    LET exponentialDelay == baseDelay * Pow2(att)
        jitter == (rnd * exponentialDelay) \div (10 * RandomScale)
    IN  Min(exponentialDelay + jitter, maxDelay)

\* executeWithRetry, "Handle rate limits specially"
IsRateLimited(e) == e.hasResponse /\ e.status = 429

RateLimitDelay(e) ==
    LET retryAfter == JsTimes(parseInt(OrSixty(e.retryAfterHeader)), 1000)
    IN  MathMin(retryAfter, maxRetryDelay)

\* the last-attempt test one attempt too early
IsLastAttemptEarly(att) == att >= retries - 1

\* a loop that never takes the last-attempt break
IsLastAttemptNever(att) == FALSE

\* executeWithRetry, "Don't retry if it's the last attempt"
IsLastAttempt(att) == att = retries

\* the for loop's condition
LoopCondition(att) == att <= retries

-----------------------------------------------------------------------------
(* Errors: what a rejected promise carries.                                *)
(* type "AxiosError": raised by the transport (response/code/config set);  *)
(* type "Error": a plain Error (no response, no code, no config);          *)
(* type "ApiError": the object transformError builds. It has no response   *)
(* property, and its code is the error kind.                               *)

ErrorKinds == {"INVALID_INPUT", "NOT_FOUND", "UNAUTHORIZED", "RATE_LIMIT", "UPSTREAM_ERROR"}

NoError ==
    [type |-> "none", code |-> UNDEFINED, hasResponse |-> FALSE, status |-> 0,
     retryAfterHeader |-> AbsentHeader, hasConfig |-> FALSE, requestId |-> UNDEFINED,
     url |-> UNDEFINED, method |-> UNDEFINED, retryAfter |-> <<>>, suggestion |-> FALSE,
     message |-> <<>>]

\* A message is the sequence of its parts, the names of environment variables
\* being parts of their own.
\* authenticate: the Error thrown when the client id or the client secret is unset
MissingCredentialsError ==
    [NoError EXCEPT !.type = "Error",
                    !.message = <<"OAuth2 authentication requires both client ID and secret. Set ",
                                  "HELPSCOUT_CLIENT_ID", " and ", "HELPSCOUT_CLIENT_SECRET",
                                  ", or use legacy ", "HELPSCOUT_API_KEY", " and ",
                                  "HELPSCOUT_APP_SECRET">>]

\* new Error('Failed to authenticate with Help Scout API')
AuthenticationError ==
    [NoError EXCEPT !.type = "Error",
                    !.message = <<"Failed to authenticate with Help Scout API">>]

\* authenticate: catch (error) { logger.error(...); throw new Error('Failed to ...') }
authenticateCatch(error) == AuthenticationError

\* the message axios gives the error of a request that got outcome out
AxiosMessage(out) ==
    IF out.status # 0 THEN <<"Request failed with status code">>
    ELSE IF out.code = "ECONNABORTED" THEN <<"timeout of 30000ms exceeded">>
    ELSE <<"socket hang up">>

\* The AxiosError of a dispatched request r that got outcome out
AxiosErrorOf(r, out) ==
    [NoError EXCEPT !.type = "AxiosError", !.code = out.code,
                    !.hasResponse = (out.status # 0), !.status = out.status,
                    !.retryAfterHeader = out.retryAfter, !.hasConfig = TRUE,
                    !.requestId = "r1", !.url = r.endpoint, !.method = r.method,
                    !.message = AxiosMessage(out)]

ApiError(error, kind, retryAfter, suggestion, message) ==
    [NoError EXCEPT !.type = "ApiError", !.code = kind,
                    !.requestId = IF error.hasConfig /\ Truthy(error.requestId)
                                  THEN error.requestId ELSE "unknown",
                    !.url = IF error.hasConfig THEN error.url ELSE UNDEFINED,
                    !.method = IF error.hasConfig THEN error.method ELSE UNDEFINED,
                    !.retryAfter = retryAfter, !.suggestion = suggestion,
                    !.message = message]

\* transformError: `Help Scout API error: ${error.message || 'Unknown upstream service error'}`
UpstreamMessage(error) ==
    <<"Help Scout API error: ">>
    \o (IF error.message # <<>> THEN error.message ELSE <<"Unknown upstream service error">>)

\* a normalizer without the 403 branch: a 403 falls through to the other 4xx
transformErrorWithout403(error) ==
    LET st == IF error.hasResponse THEN error.status ELSE 0
    IN  IF st = 401
        THEN ApiError(error, "UNAUTHORIZED", <<>>, TRUE, <<"Help Scout authentication failed.">>)
        ELSE IF st = 404
        THEN ApiError(error, "NOT_FOUND", <<>>, TRUE, <<"Help Scout resource not found.">>)
        ELSE IF st = 429
        THEN ApiError(error, "RATE_LIMIT", <<parseInt(OrSixty(error.retryAfterHeader))>>,
                      TRUE, <<"Help Scout API rate limit exceeded.">>)
        ELSE IF st >= 400 /\ st < 500
        THEN ApiError(error, "INVALID_INPUT", <<>>, FALSE, <<"Help Scout API client error">>)
        ELSE ApiError(error, "UPSTREAM_ERROR", <<>>, TRUE, UpstreamMessage(error))

transformError(error) ==
    LET st == IF error.hasResponse THEN error.status ELSE 0
    IN  IF st = 401
        THEN ApiError(error, "UNAUTHORIZED", <<>>, TRUE, <<"Help Scout authentication failed.">>)
        ELSE IF st = 403
        THEN ApiError(error, "UNAUTHORIZED", <<>>, TRUE, <<"Access forbidden.">>)
        ELSE IF st = 404
        THEN ApiError(error, "NOT_FOUND", <<>>, TRUE, <<"Help Scout resource not found.">>)
        ELSE IF st = 429
        THEN ApiError(error, "RATE_LIMIT", <<parseInt(OrSixty(error.retryAfterHeader))>>,
                      TRUE, <<"Help Scout API rate limit exceeded.">>)
        ELSE IF st = 422
        THEN ApiError(error, "INVALID_INPUT", <<>>, TRUE, <<"Help Scout API validation error">>)
        ELSE IF st >= 400 /\ st < 500
        THEN ApiError(error, "INVALID_INPUT", <<>>, FALSE, <<"Help Scout API client error">>)
        ELSE IF error.code = "ECONNABORTED"
        THEN ApiError(error, "UPSTREAM_ERROR", <<>>, TRUE, <<"Help Scout API request timed out.">>)
        ELSE IF st >= 500
        THEN ApiError(error, "UPSTREAM_ERROR", <<>>, TRUE, <<"Help Scout API server error">>)
        ELSE ApiError(error, "UPSTREAM_ERROR", <<>>, TRUE, UpstreamMessage(error))

\* transformError's side effect: this.accessToken = null on a 401
InvalidatesToken(error) == error.hasResponse /\ error.status = 401

\* a rejection handler that passes the transport error on: Promise.reject(error)
ErrorInterceptorRaw(error) == error

\* the response interceptor's rejection handler: Promise.reject(this.transformError(error))
ErrorInterceptor(error) == transformError(error)

\* the validateStatus axios uses when none is given: only 2xx resolves
validateStatusDefault(status) == status >= 200 /\ status < 300

\* axios.create({ validateStatus }): the statuses axios resolves the promise for
validateStatus(status) == status < 500

\* executeWithRetry: throw lastError || new Error(...)
FinalThrow(err) == err

-----------------------------------------------------------------------------
(* The cache store (./cache.js): get(key, params) -> value | undefined,    *)
(* set(key, params, value, {ttl}); an entry lives for ttl seconds.         *)

CacheKeys == {<<<<"GET">> \o e, p>> : e \in AllEndpoints, p \in ParamSets}

NoEntry == [present |-> FALSE, value |-> UNDEFINED, expires |-> 0]

Live(store, key, t) == store[key].present /\ t < store[key].expires

CacheGet(store, key, t) == IF Live(store, key, t) THEN store[key].value ELSE UNDEFINED

CacheSet(store, key, value, ttl, t) ==
    [store EXCEPT ![key] = [present |-> TRUE, value |-> value, expires |-> t + ttl * 1000]]

\* get: const cacheKey = `GET:${endpoint}`
cacheKey(endpoint, params) == <<<<"GET">> \o endpoint, params>>

getDefaultCacheTtl(endpoint) ==
    IF Includes(endpoint, "conversations") THEN 300
    ELSE IF Includes(endpoint, "mailboxes") THEN 1440
    ELSE IF Includes(endpoint, "threads") THEN 300
    ELSE 300

\* a ttl choice that takes a ttl of 0 for none
CacheTtlTruthy(endpoint, cacheOptions) ==
    IF cacheOptions # <<>> /\ cacheOptions[1] # 0
    THEN cacheOptions[1]
    ELSE getDefaultCacheTtl(endpoint)

\* get: the ttl the entry is written with
CacheTtl(endpoint, cacheOptions) ==
    IF cacheOptions # <<>> /\ (cacheOptions[1] # 0 \/ cacheOptions[1] = 0)
    THEN cacheOptions[1]
    ELSE getDefaultCacheTtl(endpoint)

-----------------------------------------------------------------------------
(* The upstream service: what one dispatched request can come back with.   *)
(* status 0 is "no response"; code is the AxiosError code of a failure.    *)

Outcome(status, code, data, retryAfter, resourceId) ==
    [status |-> status, code |-> code, data |-> data, retryAfter |-> retryAfter,
     resourceId |-> resourceId]

ClientErrorStatuses == {401, 403, 404, 409, 422}

SuccessStatuses(method) ==
    IF method = "POST" THEN {201} ELSE IF method = "GET" THEN {200} ELSE {200, 204}

\* the answers axios resolves or rejects with a response for
Answers(r) ==
    {Outcome(st, "none", d, AbsentHeader, AbsentHeader) :
        st \in SuccessStatuses(r.method) \ {204}, d \in Payloads}
    \cup {Outcome(st, "none", ErrorBody, AbsentHeader, AbsentHeader) :
            st \in ClientErrorStatuses}
    \cup {Outcome(204, "none", EmptyBody, AbsentHeader, AbsentHeader) :
            st \in SuccessStatuses(r.method) \cap {204}}
    \cup {Outcome(201, "none", "d1", AbsentHeader, h) :
            h \in {x \in ResourceIdHeaders : r.method = "POST" /\ x # AbsentHeader}}
    \cup {Outcome(429, "none", ErrorBody, h, AbsentHeader) : h \in {AbsentHeader, <<"5">>}}

\* a server error, a client-side timeout, a connection reset
NetworkFailures ==
    {Outcome(500, "ERR_BAD_RESPONSE", ErrorBody, AbsentHeader, AbsentHeader),
     Outcome(0, "ECONNABORTED", EmptyBody, AbsentHeader, AbsentHeader),
     Outcome(0, "ECONNRESET", EmptyBody, AbsentHeader, AbsentHeader)}

Outcomes(r, budget) == Answers(r) \cup (IF budget > 0 THEN NetworkFailures ELSE {})

\* one entry of hist: the outcome of an attempt, sent being FALSE for an attempt
\* that failed in the request interceptor, before any request was dispatched
Attempted(out, sent) == [out |-> out, sent |-> sent]

NotDispatched == Outcome(0, "none", EmptyBody, AbsentHeader, AbsentHeader)

-----------------------------------------------------------------------------
(* Facade calls *)

NoReq ==
    [op |-> "none", method |-> "none", endpoint |-> <<>>, params |-> UNDEFINED,
     cacheOptions |-> <<>>]

Req(op, method, endpoint, params, cacheOptions) ==
    [op |-> op, method |-> method, endpoint |-> endpoint, params |-> params,
     cacheOptions |-> cacheOptions]

\* what a call delivers: status "ok" (the promise resolved with value, and id for a
\* post that found a Resource-ID header) or "thrown" (it rejected with error).
\* testConnection's booleans are the values "true" and "false".
NoResult == [status |-> "none", value |-> UNDEFINED, id |-> <<>>, error |-> NoError]
Returned(value, id) == [NoResult EXCEPT !.status = "ok", !.value = value, !.id = id]
Thrown(error) == [NoResult EXCEPT !.status = "thrown", !.error = error]

\* a get that leaves a live entry of its key as it is
getCompletionKeepsFirst(store, r, out, t) ==
    [cache |-> IF Live(store, cacheKey(r.endpoint, r.params), t) THEN store
               ELSE CacheSet(store, cacheKey(r.endpoint, r.params), out.data,
                             CacheTtl(r.endpoint, r.cacheOptions), t),
     result |-> Returned(out.data, <<>>)]

\* get, after executeWithRetry returned response out: the cache write and the result
getCompletion(store, r, out, t) ==
    [cache |-> CacheSet(store, cacheKey(r.endpoint, r.params), out.data,
                        CacheTtl(r.endpoint, r.cacheOptions), t),
     result |-> Returned(out.data, <<>>)]

\* put and patch: a 204 has no body
putCompletion(store, r, out, t) ==
    [cache |-> store,
     result |-> IF out.status = 204 THEN Returned(UNDEFINED, <<>>)
                ELSE Returned(out.data, <<>>)]

patchCompletion(store, r, out, t) ==
    [cache |-> store,
     result |-> IF out.status = 204 THEN Returned(UNDEFINED, <<>>)
                ELSE Returned(out.data, <<>>)]

\* post as it would be if it stored its response like get does
postCompletionCaching(store, r, out, t) ==
    [cache |-> CacheSet(store, cacheKey(r.endpoint, r.params), out.data,
                        getDefaultCacheTtl(r.endpoint), t),
     result |-> IF out.resourceId # AbsentHeader
                THEN Returned(out.data, <<parseInt(out.resourceId)>>)
                ELSE Returned(out.data, <<>>)]

\* post: the Resource-ID header, when present, is folded in as id
postCompletion(store, r, out, t) ==
    [cache |-> store,
     result |-> IF out.resourceId # AbsentHeader
                THEN Returned(out.data, <<parseInt(out.resourceId)>>)
                ELSE Returned(out.data, <<>>)]

getAttachmentDataCompletion(store, r, out, t) ==
    [cache |-> store, result |-> Returned(out.data, <<>>)]

\* testConnection: await this.get(...); return true
testConnectionCompletion(store, r, out, t) ==
    [cache |-> getCompletion(store, r, out, t).cache, result |-> Returned("true", <<>>)]

Completion(store, r, out, t) ==
    CASE r.op = "get" -> getCompletion(store, r, out, t)
      [] r.op = "put" -> putCompletion(store, r, out, t)
      [] r.op = "patch" -> patchCompletion(store, r, out, t)
      [] r.op = "post" -> postCompletion(store, r, out, t)
      [] r.op = "getAttachmentData" -> getAttachmentDataCompletion(store, r, out, t)
      [] r.op = "testConnection" -> testConnectionCompletion(store, r, out, t)

\* testConnection: catch (error) { ...; return false }
testConnectionCatch(error) == Returned("false", <<>>)

\* what the caller gets when executeWithRetry throws error
Failure(r, error) ==
    IF r.op = "testConnection" THEN testConnectionCatch(error) ELSE Thrown(error)

-----------------------------------------------------------------------------
(* State machine *)

twentyFourHours == 24 * 60 * 60 * 1000
oneMinuteBuffer == 60000
\* closePool: await this.sleep(100)
closeGrace == 100

\* an authenticate that ignores a configured static token
StaticTokenIgnored(apiKey) == FALSE

\* authenticate: config.helpscout.apiKey && config.helpscout.apiKey.startsWith('Bearer ')
IsPersonalAccessToken(apiKey) == apiKey # <<>> /\ Head(apiKey) = "Bearer "

\* config.helpscout.apiKey.replace('Bearer ', '')
StripBearer(apiKey) == IF Len(apiKey) >= 2 THEN apiKey[2] ELSE EmptyBody

\* authenticate: !clientId || !clientSecret
MissingCredentials(cfg) == ~Truthy(cfg.clientId) \/ ~Truthy(cfg.clientSecret)

\* an expiry check that looks at the token only
TokenPresent(token, expiresAt, t) == Truthy(token)

\* ensureAuthenticated: this.accessToken && Date.now() < this.tokenExpiresAt
TokenValid(token, expiresAt, t) == Truthy(token) /\ t < expiresAt

\* A Partial<ConnectionPoolConfig>: <<>> for a property left out, <<v>> for one given
NoPoolConfig ==
    [maxSockets |-> <<>>, maxFreeSockets |-> <<>>, timeout |-> <<>>, keepAlive |-> <<>>,
     keepAliveMsecs |-> <<>>]

\* the poolConfig arguments the client is constructed with
PoolConfigs ==
    {NoPoolConfig,
     [NoPoolConfig EXCEPT !.maxSockets = <<10>>],
     [NoPoolConfig EXCEPT !.maxFreeSockets = <<2>>, !.timeout = <<5000>>,
                          !.keepAlive = <<FALSE>>, !.keepAliveMsecs = <<500>>]}

DEFAULT_POOL_CONFIG ==
    [maxSockets |-> 50, maxFreeSockets |-> 10, timeout |-> 30000, keepAlive |-> TRUE,
     keepAliveMsecs |-> 1000]

\* constructor: { ...DEFAULT_POOL_CONFIG, ...poolConfig }
finalPoolConfig(poolConfig) ==
    [k \in DOMAIN DEFAULT_POOL_CONFIG |->
        IF poolConfig[k] # <<>> THEN poolConfig[k][1] ELSE DEFAULT_POOL_CONFIG[k]]

\* the options an agent is created with from a pool configuration
AgentOptions(cfg) ==
    [keepAlive |-> cfg.keepAlive, keepAliveMsecs |-> cfg.keepAliveMsecs,
     maxSockets |-> cfg.maxSockets, maxFreeSockets |-> cfg.maxFreeSockets,
     timeout |-> cfg.timeout]

\* clearIdleConnections: const poolConfig = { keepAlive: true, ... }
ClearedPoolConfig ==
    [keepAlive |-> TRUE, keepAliveMsecs |-> 1000, maxSockets |-> 50, maxFreeSockets |-> 10,
     timeout |-> 30000]

\* constructor: the agents are created, and axios.create is given those agents.
\* agent is the generation of this.httpAgent and this.httpsAgent, clientAgent the
\* generation of the agents the axios instance sends its requests through; http and
\* https are the options of this.httpAgent and this.httpsAgent, constructed the
\* configuration the constructor computed; closing and closeAt are the pending
\* closePool() and the end of its sleep, closes the closePool() calls completed.
ConstructPool(poolConfig) ==
    [agent |-> 0, clientAgent |-> 0,
     http |-> AgentOptions(finalPoolConfig(poolConfig)),
     https |-> AgentOptions(finalPoolConfig(poolConfig)),
     constructed |-> finalPoolConfig(poolConfig),
     closing |-> FALSE, closeAt |-> 0, closes |-> 0]

\* the pool of a client constructed without a poolConfig
NewPool == ConstructPool(NoPoolConfig)

\* Agent.destroy() closes the sockets of the agent it is called on: a request in
\* flight loses its socket when its agent is the one destroyed
LosesSocket(p, state) == state = "inflight" /\ p.clientAgent = p.agent

\* a destroyed socket that leaves its request without any completion signal
NoCompletionSignal == {}

\* what a request whose socket was destroyed is rejected with: a connection reset,
\* or the 30 s timeout of the axios instance
ResetFailures == {o \in NetworkFailures : o.status = 0}

\* an expiry taken as the service declares it
TokenExpiryWithoutBuffer(t, expiresIn) == t + (expiresIn * 1000)

\* authenticate: expires_in seconds from now, less the buffer
TokenExpiry(t, expiresIn) == t + (expiresIn * 1000) - oneMinuteBuffer

\* an expiry that is only ever moved forward
ExpiryWriteKeepsLater(old, new) == IF old > new THEN old ELSE new

\* authenticate: this.tokenExpiresAt = ..., in the block that assigned the token
ExpiryWrite(old, new) == new

\* a token that is stored only when none is cached
TokenWriteOnce(old, new) == IF old = NULL THEN new ELSE old

\* authenticate: this.accessToken = response.data.access_token
TokenWrite(old, new) == new

\* an ensureAuthenticated that, resumed after `await this.authenticate()`, checks
\* the token again
ResumeAtExpiryCheck == "request"

\* ensureAuthenticated after `await this.authenticate()`: it returns, and the
\* request interceptor resumes after `await this.ensureAuthenticated()`
AfterAuthenticate == "authenticated"

-----------------------------------------------------------------------------
(* The API-constraints advisor (src/src/utils/api-constraints.ts).         *)
(* A text is the sequence of its characters. An argument value is a record *)
(* of its JavaScript type t and, for a string, its characters s, for an    *)
(* array, its elements s.                                                  *)

Undefined == [t |-> "undefined", s |-> <<>>]
Str(s) == [t |-> "string", s |-> s]
\* a non-zero number
Num == [t |-> "number", s |-> <<>>]
Arr(items) == [t |-> "array", s |-> items]

\* the value in a condition: undefined and the empty string are falsy
ArgTruthy(v) == v.t # "undefined" /\ (v.t = "string" => v.s # <<>>)
\* typeof v === 'string'
IsString(v) == v.t = "string"

UpperCase == <<"A", "B", "C", "D", "E", "F", "G", "H", "I", "J", "K", "L", "M", "N", "O", "P", "Q", "R", "S", "T", "U", "V", "W", "X", "Y", "Z">>
LowerCase == <<"a", "b", "c", "d", "e", "f", "g", "h", "i", "j", "k", "l", "m", "n", "o", "p", "q", "r", "s", "t", "u", "v", "w", "x", "y", "z">>

toLowerCaseChar(ch) ==
    IF \E i \in DOMAIN UpperCase : UpperCase[i] = ch
    THEN LowerCase[CHOOSE i \in DOMAIN UpperCase : UpperCase[i] = ch]
    ELSE ch

toLowerCase(s) == [i \in 1 .. Len(s) |-> toLowerCaseChar(s[i])]

\* \w and \s of a regular expression
IsWordChar(ch) ==
    \/ ch \in Digits \cup {"_"}
    \/ \E i \in DOMAIN LowerCase : ch = LowerCase[i] \/ ch = UpperCase[i]
IsSpaceChar(ch) == ch = " "

\* the text w occurs in s at position i
StartsAt(s, i, w) == i >= 1 /\ i + Len(w) - 1 <= Len(s) /\ SubSeq(s, i, i + Len(w) - 1) = w

\* s.includes(w)
StringIncludes(s, w) == \E i \in 1 .. (Len(s) + 1) : StartsAt(s, i, w)

\* \b before the character at position i
WordBoundary(s, i) ==
    (i > 1 /\ i - 1 <= Len(s) /\ IsWordChar(s[i - 1])) # (i <= Len(s) /\ IsWordChar(s[i]))

\* /^\d+$/.test(s)
AllDigits(s) == s # <<>> /\ \A i \in DOMAIN s : s[i] \in Digits

\* s.trim() === ''
TrimsToEmpty(s) == \A i \in DOMAIN s : IsSpaceChar(s[i])

\* \s+ matches s from position i up to position j, j excluded
Spaces(s, i, j) == i < j /\ \A k \in i .. (j - 1) : IsSpaceChar(s[k])

\* [\w\s]+ matches s from position i up to position j, j excluded
WordsOrSpaces(s, i, j) ==
    i < j /\ \A k \in i .. (j - 1) : IsWordChar(s[k]) \/ IsSpaceChar(s[k])

\* [^\s@]+ matches s from position i up to position j, j excluded
NeitherSpaceNorAt(s, i, j) ==
    i < j /\ \A k \in i .. (j - 1) : ~IsSpaceChar(s[k]) /\ s[k] # "@"

\* /^[^\s@]+@[^\s@]+\.[^\s@]+$/.test(s)
emailRegexTest(s) ==
    \E a \in DOMAIN s, d \in DOMAIN s :
        /\ s[a] = "@" /\ s[d] = "."
        /\ NeitherSpaceNorAt(s, 1, a)
        /\ NeitherSpaceNorAt(s, a + 1, d)
        /\ NeitherSpaceNorAt(s, d + 1, Len(s) + 1)

inboxKeywords ==
    {<<"i", "n", "b", "o", "x">>,
     <<"m", "a", "i", "l", "b", "o", "x">>,
     <<"s", "u", "p", "p", "o", "r", "t">>,
     <<"s", "a", "l", "e", "s">>,
     <<"b", "i", "l", "l", "i", "n", "g">>,
     <<"t", "e", "c", "h", "n", "i", "c", "a", "l">>,
     <<"g", "e", "n", "e", "r", "a", "l">>,
     <<"c", "u", "s", "t", "o", "m", "e", "r", " ", "s", "e", "r", "v", "i", "c", "e">>,
     <<"h", "e", "l", "p", " ", "d", "e", "s", "k">>,
     <<"c", "o", "n", "t", "a", "c", "t">>,
     <<"f", "e", "e", "d", "b", "a", "c", "k">>,
     <<"i", "n", "f", "o">>,
     <<"a", "d", "m", "i", "n">>}

\* (?:inbox|mailbox|queue)
QueueWords == {<<"i", "n", "b", "o", "x">>, <<"m", "a", "i", "l", "b", "o", "x">>, <<"q", "u", "e", "u", "e">>}
\* (?:in the|from the|from|in)
LeadWords == {<<"i", "n", " ", "t", "h", "e">>, <<"f", "r", "o", "m", " ", "t", "h", "e">>, <<"f", "r", "o", "m">>, <<"i", "n">>}

\* ([\w\s]+)\s+(?:inbox|mailbox|queue) matches s from position i
CaptureThenQueueWord(s, i) ==
    \E j \in (i + 2) .. Len(s) :
        /\ \E w \in QueueWords : StartsAt(s, j, w)
        /\ \E m \in (i + 1) .. (j - 1) : WordsOrSpaces(s, i, m) /\ Spaces(s, m, j)

\* /\b(?:in the|from the|from|in)\s+([\w\s]+)\s+(?:inbox|mailbox|queue)/.test(s)
LeadPattern(s) ==
    \E i \in DOMAIN s :
        /\ WordBoundary(s, i)
        /\ \E p \in LeadWords :
              /\ StartsAt(s, i, p)
              /\ \E k \in DOMAIN s : Spaces(s, i + Len(p), k) /\ CaptureThenQueueWord(s, k)

\* /\b([\w\s]+)\s+(?:inbox|mailbox|queue)/.test(s)
NamePattern(s) == \E i \in DOMAIN s : WordBoundary(s, i) /\ CaptureThenQueueWord(s, i)

\* /\b(?:inbox|mailbox)\s+([\w\s]+)/.test(s)
TrailPattern(s) ==
    \E i \in DOMAIN s :
        /\ WordBoundary(s, i)
        /\ \E w \in QueueWords \ {<<"q", "u", "e", "u", "e">>} :
              /\ StartsAt(s, i, w)
              /\ \E k \in DOMAIN s : Spaces(s, i + Len(w), k) /\ WordsOrSpaces(s, k, k + 1)

detectInboxMention(userQuery) ==
    LET lowerQuery == toLowerCase(userQuery)
        hasInboxKeyword == \E keyword \in inboxKeywords : StringIncludes(lowerQuery, keyword)
        hasInboxPattern ==
            LeadPattern(lowerQuery) \/ NamePattern(lowerQuery) \/ TrailPattern(lowerQuery)
    IN  hasInboxKeyword \/ hasInboxPattern

\* requiredPrerequisites.length > 0 ? requiredPrerequisites : undefined
Prerequisites(items) ==
    IF Len(items) > 0 THEN [defined |-> TRUE, items |-> items]
    ELSE [defined |-> FALSE, items |-> <<>>]

NoPrerequisites == [defined |-> FALSE, items |-> <<>>]

\* { isValid: errors.length === 0, errors, suggestions, requiredPrerequisites }
ValidationResult(errors, suggestions, requiredPrerequisites) ==
    [done |-> TRUE, isValid |-> (Len(errors) = 0), errors |-> errors,
     suggestions |-> suggestions, requiredPrerequisites |-> requiredPrerequisites]

\* a history of which only the latest call counts
hasSearchedInboxesLatest(previousCalls) ==
    previousCalls # <<>> /\ previousCalls[Len(previousCalls)] = "searchInboxes"

\* previousCalls.includes('searchInboxes')
hasSearchedInboxes(previousCalls) ==
    \E i \in DOMAIN previousCalls : previousCalls[i] = "searchInboxes"

\* new Date(value) inside try: the constructor returns an invalid date for a text it
\* cannot read, it does not throw
DateConstructorThrows(v) == FALSE

When(cond, items) == IF cond THEN items ELSE <<>>

validateSearchConversations(args, userQuery, previousCalls) ==
    LET inboxMentioned == detectInboxMention(userQuery)
        hasInboxId == ArgTruthy(args.inboxId) /\ IsString(args.inboxId)
        searched == hasSearchedInboxes(previousCalls)
        hasStatus == ArgTruthy(args.status) /\ IsString(args.status)
        hasQuery == ArgTruthy(args.query) /\ IsString(args.query)
        hasTag == ArgTruthy(args.tag) /\ IsString(args.tag)
        noInboxId == inboxMentioned /\ ~hasInboxId
        badInboxId == hasInboxId /\ ~AllDigits(args.inboxId.s)
        badDate == ArgTruthy(args.createdAfter) /\ DateConstructorThrows(args.createdAfter)
    IN  ValidationResult(
            When(noInboxId, <<"User mentioned an inbox by name but no inboxId provided">>)
            \o When(badInboxId, <<"Invalid inbox ID format - should be numeric">>)
            \o When(badDate, <<"Invalid createdAfter date format">>),
            When(noInboxId /\ ~searched, <<"REQUIRED: Call searchInboxes first">>)
            \o When(noInboxId /\ searched, <<"Use the inbox ID from your previous searchInboxes call">>)
            \o When((hasQuery \/ hasTag) /\ ~hasStatus, <<"PERFORMANCE WARNING">>)
            \o When(badInboxId, <<"Inbox IDs from Help Scout are numeric strings">>)
            \o When(badDate, <<"Use ISO 8601 format">>),
            Prerequisites(When(noInboxId /\ ~searched, <<"searchInboxes">>)))

validateComprehensiveSearch(args, userQuery, previousCalls) ==
    LET inboxMentioned == detectInboxMention(userQuery)
        hasInboxId == ArgTruthy(args.inboxId) /\ IsString(args.inboxId)
        searched == hasSearchedInboxes(previousCalls)
        required == inboxMentioned /\ ~hasInboxId /\ ~searched
        noTerms == \/ ~ArgTruthy(args.searchTerms)
                   \/ args.searchTerms.t # "array"
                   \/ Len(args.searchTerms.s) = 0
    IN  ValidationResult(
            When(noTerms, <<"searchTerms is required and must be a non-empty array">>),
            When(required, <<"REQUIRED: Call searchInboxes first">>),
            Prerequisites(When(required, <<"searchInboxes">>)))

validateConversationSummary(args) ==
    LET missing == ~ArgTruthy(args.conversationId) \/ ~IsString(args.conversationId)
        malformed == ~missing /\ ~AllDigits(args.conversationId.s)
    IN  ValidationResult(
            When(missing, <<"conversationId is required">>)
            \o When(malformed, <<"Invalid conversation ID format">>),
            When(missing, <<"Get conversation ID from search results">>)
            \o When(malformed, <<"Conversation IDs should be numeric strings">>),
            NoPrerequisites)

validateGetThreads(args) ==
    LET missing == ~ArgTruthy(args.conversationId) \/ ~IsString(args.conversationId)
    IN  ValidationResult(
            When(missing, <<"conversationId is required">>),
            When(missing, <<"Get conversation ID from searchConversations results first">>),
            NoPrerequisites)

validateCreateDraftConversation(args, previousCalls) ==
    LET noMailbox == ~ArgTruthy(args.mailboxId) \/ ~IsString(args.mailboxId)
        badMailbox == ~noMailbox /\ ~AllDigits(args.mailboxId.s)
        searched ==
            \E i \in DOMAIN previousCalls :
                previousCalls[i] \in {"searchInboxes", "listAllInboxes"}
        noSubject == \/ ~ArgTruthy(args.subject)
                     \/ ~IsString(args.subject)
                     \/ TrimsToEmpty(args.subject.s)
        noRecipient == ~ArgTruthy(args.recipientEmail) \/ ~IsString(args.recipientEmail)
        badRecipient == ~noRecipient /\ ~emailRegexTest(args.recipientEmail.s)
        noText == ~ArgTruthy(args.text) \/ ~IsString(args.text) \/ TrimsToEmpty(args.text.s)
    IN  ValidationResult(
            When(noMailbox, <<"mailboxId is required">>)
            \o When(badMailbox, <<"Invalid mailboxId format - should be numeric">>)
            \o When(noSubject, <<"subject is required and cannot be empty">>)
            \o When(noRecipient, <<"recipientEmail is required">>)
            \o When(badRecipient, <<"recipientEmail must be a valid email address">>)
            \o When(noText, <<"text (message body) is required and cannot be empty">>),
            When(noMailbox, <<"Use listAllInboxes or searchInboxes to get a valid mailbox ID">>)
            \o When(badMailbox, <<"Mailbox IDs from Help Scout are numeric strings">>)
            \o When(~searched /\ ArgTruthy(args.mailboxId), <<"TIP: call listAllInboxes first">>),
            Prerequisites(When(noMailbox, <<"listAllInboxes">>)))

\* the tool names validateToolCall has a case for
KnownTools ==
    {"searchConversations", "comprehensiveConversationSearch", "getConversationSummary",
     "getThreads", "createDraftConversation"}

\* validateToolCall: userQuery = '' and previousCalls = [] when the context has none
validateToolCall(context) ==
    LET args == context.arguments
        userQuery == IF context.userQuery.t = "undefined" THEN <<>> ELSE context.userQuery.s
        previousCalls ==
            IF context.previousCalls.t = "undefined" THEN <<>> ELSE context.previousCalls.s
    IN  CASE context.toolName = "searchConversations" ->
                validateSearchConversations(args, userQuery, previousCalls)
          [] context.toolName = "comprehensiveConversationSearch" ->
                validateComprehensiveSearch(args, userQuery, previousCalls)
          [] context.toolName = "getConversationSummary" -> validateConversationSummary(args)
          [] context.toolName = "getThreads" -> validateGetThreads(args)
          [] context.toolName = "createDraftConversation" ->
                validateCreateDraftConversation(args, previousCalls)
          [] OTHER ->
                [done |-> TRUE, isValid |-> TRUE, errors |-> <<>>, suggestions |-> <<>>,
                 requiredPrerequisites |-> NoPrerequisites]

\* the arguments of a tool call, none given
NoArgs ==
    [inboxId |-> Undefined, status |-> Undefined, query |-> Undefined, tag |-> Undefined,
     createdAfter |-> Undefined, searchTerms |-> Undefined, conversationId |-> Undefined,
     mailboxId |-> Undefined, subject |-> Undefined, recipientEmail |-> Undefined,
     text |-> Undefined]

\* user queries: none, without and with an inbox named, by keyword, in capitals, by
\* pattern only, and with a keyword inside another word
UserQueries ==
    {Undefined,
     Str(<<>>),
     Str(<<"s", "h", "o", "w", " ", "u", "r", "g", "e", "n", "t", " ", "t", "i", "c", "k", "e", "t", "s">>),
     Str(<<"S", "u", "p", "p", "o", "r", "t", " ", "t", "i", "c", "k", "e", "t", "s">>),
     Str(<<"t", "i", "c", "k", "e", "t", "s", " ", "i", "n", " ", "m", "y", " ", "q", "u", "e", "u", "e">>),
     Str(<<"m", "o", "r", "e", " ", "i", "n", "f", "o", "r", "m", "a", "t", "i", "o", "n">>),
     Str(<<"t", "h", "e", " ", "I", "N", "B", "O", "X", " ", "o", "f", " ", "s", "a", "l", "e", "s">>),
     Str(<<"q", "u", "e", "u", "e">>),
     Str(<<",", " ", "q", "u", "e", "u", "e">>),
     Str(<<"i", "n", " ", "t", "h", "e", " ", "A", "c", "m", "e", " ", "m", "a", "i", "l", "b", "o", "x">>)}

\* the longest history of earlier calls
MaxPreviousCalls == 2

ToolNames == {"searchInboxes", "searchConversations", "listAllInboxes"}

Histories ==
    {Undefined}
    \cup {Arr(h) : h \in UNION {[1 .. n -> ToolNames] : n \in 0 .. MaxPreviousCalls}}

ArgumentsOf(toolName) ==
    CASE toolName = "searchConversations" ->
            {[NoArgs EXCEPT !.inboxId = i, !.status = x[1], !.query = x[2],
                            !.createdAfter = x[3]] :
                i \in {Undefined, Num, Str(<<>>), Str(<<"1", "2", "3">>),
                       Str(<<"1", "2", "a">>)},
                x \in {<<Undefined, Undefined, Undefined>>,
                       <<Undefined, Str(<<"r", "e", "f", "u", "n", "d">>), Undefined>>,
                       <<Str(<<"a", "c", "t", "i", "v", "e">>),
                         Str(<<"r", "e", "f", "u", "n", "d">>), Str(<<"s", "o", "o", "n">>)>>}}
      [] toolName = "comprehensiveConversationSearch" ->
            {[NoArgs EXCEPT !.inboxId = i, !.searchTerms = t] :
                i \in {Undefined, Str(<<"1", "2", "3">>)},
                t \in {Undefined, Arr(<<>>), Arr(<<"refund">>),
                       Str(<<"r", "e", "f", "u", "n", "d">>)}}
      [] toolName \in {"getConversationSummary", "getThreads"} ->
            {[NoArgs EXCEPT !.conversationId = i] :
                i \in {Undefined, Num, Str(<<"1", "2", "3">>), Str(<<"1", "2", "a">>)}}
      [] toolName = "createDraftConversation" ->
            {[NoArgs EXCEPT !.mailboxId = m, !.subject = x[1], !.recipientEmail = x[2],
                            !.text = x[3]] :
                m \in {Undefined, Str(<<"1", "2", "3">>), Str(<<"1", "2", "a">>)},
                x \in {<<Undefined, Undefined, Undefined>>,
                       <<Str(<<"H", "i">>), Str(<<"a", "@", "b", ".", "c", "o">>),
                         Str(<<"H", "i">>)>>,
                       <<Str(<<" ">>), Str(<<"a", "@", "b">>), Str(<<"H", "i">>)>>,
                       <<Str(<<"H", "i">>), Num, Str(<<" ">>)>>}}
      [] OTHER -> {NoArgs, [NoArgs EXCEPT !.inboxId = Str(<<"1", "2", "3">>)]}

\* the contexts validateToolCall is called with for tool toolName
ContextsOf(toolName) ==
    {[toolName |-> toolName, arguments |-> a, userQuery |-> q, previousCalls |-> h] :
        a \in ArgumentsOf(toolName), q \in UserQueries, h \in Histories}

\* a tool the advisor has no case for
UnknownTool == "listTags"

-----------------------------------------------------------------------------
(* The client *)

\* no tool call has been handed to the advisor
NoToolCall == [toolName |-> "none"]
NoValidation == [done |-> FALSE]
NoToolCallMade == toolCall = NoToolCall /\ validation = NoValidation

\* the fields of a new client, leaving the pool aside
NewClientFields ==
    /\ config \in Configs
    /\ now = 0
    /\ accessToken = NULL
    /\ tokenExpiresAt = 0
    /\ cache = [k \in CacheKeys |-> NoEntry]
    /\ started = 0
    /\ callNo = [c \in Callers |-> 0]
    /\ pc = [c \in Callers |-> "idle"]
    /\ req = [c \in Callers |-> NoReq]
    /\ attempt = [c \in Callers |-> 0]
    /\ hist = [c \in Callers |-> <<>>]
    /\ delays = [c \in Callers |-> <<>>]
    /\ wakeAt = [c \in Callers |-> 0]
    /\ header = [c \in Callers |-> "none"]
    /\ consulted = [c \in Callers |-> FALSE]
    /\ exchanges = [c \in Callers |-> 0]
    /\ lastError = [c \in Callers |-> NoError]
    /\ result = [c \in Callers |-> NoResult]
    /\ declaredExpiry = 0
    /\ unauthorized = [c \in Callers |-> FALSE]
    /\ normalized = [c \in Callers |-> 0]

NewClient == NewClientFields /\ pool = NewPool /\ NoToolCallMade

\* a fresh client used by one caller
InitClient == NewClient /\ active = {"a"}

\* one call on a fresh client, over a network that may fail every attempt
Init == InitClient /\ callBudget = 1 /\ failBudget = retries + 1

\* MaxCalls calls one after the other, over a network that answers every request
InitSeq == InitClient /\ callBudget = MaxCalls /\ failBudget = 0

CanCall(c) == c \in active /\ pc[c] \in {"idle", "done"} /\ started < callBudget

\* a facade call begins: executeWithRetry enters its loop and invokes operation()
Begin(c, r) ==
    /\ started' = started + 1
    /\ callNo' = [callNo EXCEPT ![c] = started + 1]
    /\ req' = [req EXCEPT ![c] = r]
    /\ attempt' = [attempt EXCEPT ![c] = 0]
    /\ hist' = [hist EXCEPT ![c] = <<>>]
    /\ delays' = [delays EXCEPT ![c] = <<>>]
    /\ exchanges' = [exchanges EXCEPT ![c] = 0]
    /\ lastError' = [lastError EXCEPT ![c] = NoError]
    /\ normalized' = [normalized EXCEPT ![c] = 0]
    /\ header' = [header EXCEPT ![c] = "none"]
    /\ unauthorized' = [unauthorized EXCEPT ![c] =
           hist[c] # <<>> /\ Last(hist[c]).sent /\ Last(hist[c]).out.status = 401]
    /\ UNCHANGED <<toolCall, validation,
                   config, pool, declaredExpiry, now, tokenVars, cache, active, wakeAt,
                   callBudget, failBudget>>

\* get up to its first suspension: the cache check, then executeWithRetry
GetCall(c, r) ==
    LET cachedResult == CacheGet(cache, cacheKey(r.endpoint, r.params), now)
    IN  /\ Begin(c, r)
        /\ consulted' = [consulted EXCEPT ![c] = TRUE]
        /\ IF Truthy(cachedResult)
           THEN /\ pc' = [pc EXCEPT ![c] = "done"]
                /\ result' = [result EXCEPT ![c] =
                       IF r.op = "testConnection" THEN Returned("true", <<>>)
                       ELSE Returned(cachedResult, <<>>)]
           ELSE /\ pc' = [pc EXCEPT ![c] = "request"]
                /\ result' = [result EXCEPT ![c] = NoResult]

\* post, put, patch, getAttachmentData up to their first suspension
DirectCall(c, r) ==
    /\ Begin(c, r)
    /\ consulted' = [consulted EXCEPT ![c] = FALSE]
    /\ pc' = [pc EXCEPT ![c] = "request"]
    /\ result' = [result EXCEPT ![c] = NoResult]

Get(c, endpoint, params, cacheOptions) ==
    /\ CanCall(c)
    /\ GetCall(c, Req("get", "GET", endpoint, params, cacheOptions))

Post(c, endpoint) ==
    /\ CanCall(c)
    /\ DirectCall(c, Req("post", "POST", endpoint, UNDEFINED, <<>>))

Put(c, endpoint) ==
    /\ CanCall(c)
    /\ DirectCall(c, Req("put", "PUT", endpoint, UNDEFINED, <<>>))

Patch(c, endpoint) ==
    /\ CanCall(c)
    /\ DirectCall(c, Req("patch", "PATCH", endpoint, UNDEFINED, <<>>))

GetAttachmentData(c) ==
    /\ CanCall(c)
    /\ DirectCall(c, Req("getAttachmentData", "GET", AttachmentEndpoint, UNDEFINED, <<>>))

\* testConnection: this.get('/mailboxes', { page: 1, size: 1 }), its result or its
\* failure turned into a boolean
TestConnection(c) ==
    /\ CanCall(c)
    /\ GetCall(c, Req("testConnection", "GET", Mailboxes, PageOneSizeOne, <<>>))

\* the request interceptor after ensureAuthenticated: the Authorization header is
\* set from the token field when it is truthy, and the request is dispatched
Dispatch(c, token) ==
    /\ header' = [header EXCEPT ![c] = IF Truthy(token) THEN token ELSE "none"]
    /\ pc' = [pc EXCEPT ![c] = "inflight"]
    /\ UNCHANGED <<hist, delays, wakeAt, attempt, lastError, normalized, result>>

\* One attempt of executeWithRetry rejected with the raw error: the response
\* interceptor's rejection handler, then the catch block of the loop.
\* rnd is the value Math.random() returns should the backoff be computed.
AttemptFailed(c, raw, entry, rnd) ==
    LET e == ErrorInterceptor(raw)
        delay == IF IsRateLimited(e) THEN RateLimitDelay(e)
                 ELSE calculateRetryDelay(attempt[c], retryDelay, maxRetryDelay, rnd)
    IN  /\ accessToken' = IF InvalidatesToken(raw) THEN NULL ELSE accessToken
        /\ tokenExpiresAt' = tokenExpiresAt
        /\ hist' = [hist EXCEPT ![c] = Append(@, entry)]
        /\ lastError' = [lastError EXCEPT ![c] = e]
        /\ normalized' = [normalized EXCEPT ![c] = @ + 1]
        /\ IF IsLastAttempt(attempt[c]) \/ ~retryCondition(e)
           THEN /\ pc' = [pc EXCEPT ![c] = "done"]
                /\ result' = [result EXCEPT ![c] = Failure(req[c], FinalThrow(e))]
                /\ UNCHANGED <<delays, wakeAt>>
           ELSE /\ pc' = [pc EXCEPT ![c] = "sleeping"]
                /\ delays' = [delays EXCEPT ![c] = Append(@, delay)]
                /\ wakeAt' = [wakeAt EXCEPT ![c] = now + TimerMs(delay)]
                /\ UNCHANGED result
        /\ UNCHANGED <<attempt, header>>

\* the request interceptor up to its first suspension: ensureAuthenticated(), which
\* runs authenticate() up to the token exchange when the token is absent or expired
RequestInterceptor(c) ==
    /\ c \in active
    /\ pc[c] = "request"
    /\ IF TokenValid(accessToken, tokenExpiresAt, now)
       THEN /\ pc' = [pc EXCEPT ![c] = "authenticated"]
            /\ UNCHANGED <<tokenVars, exchanges, hist, delays, wakeAt, attempt, header,
                           lastError, normalized, result>>
       ELSE IF IsPersonalAccessToken(config.apiKey)
       THEN /\ accessToken' = StripBearer(config.apiKey)
            /\ tokenExpiresAt' = now + twentyFourHours
            /\ pc' = [pc EXCEPT ![c] = AfterAuthenticate]
            /\ UNCHANGED <<exchanges, hist, delays, wakeAt, attempt, header, lastError, normalized,
                           result>>
       ELSE IF MissingCredentials(config)
       THEN /\ \E rnd \in RandomSamples :
                 AttemptFailed(c, authenticateCatch(MissingCredentialsError),
                               Attempted(NotDispatched, FALSE), rnd)
            /\ UNCHANGED exchanges
       ELSE /\ pc' = [pc EXCEPT ![c] = "authenticating"]
            /\ exchanges' = [exchanges EXCEPT ![c] = @ + 1]
            /\ UNCHANGED <<tokenVars, hist, delays, wakeAt, attempt, header, lastError, normalized,
                           result>>
    /\ UNCHANGED <<toolCall, validation,
                   config, pool, declaredExpiry, unauthorized, now, cache, active, started,
                   callNo, req, consulted, callBudget, failBudget>>

\* the token endpoint answered { access_token, expires_in }: authenticate stores
\* both and returns
TokenExchangeSucceeds(c, token, expiresIn) ==
    /\ c \in active
    /\ pc[c] = "authenticating"
    /\ accessToken' = TokenWrite(accessToken, token)
    /\ tokenExpiresAt' = ExpiryWrite(tokenExpiresAt, TokenExpiry(now, expiresIn))
    /\ declaredExpiry' = now + expiresIn * 1000
    /\ pc' = [pc EXCEPT ![c] = AfterAuthenticate]
    /\ UNCHANGED <<toolCall, validation,
                   config, pool, unauthorized, now, cache, active, started, callNo, req,
                   consulted, exchanges, callBudget, failBudget, hist, delays, wakeAt,
                   attempt, header, lastError, normalized, result>>

\* the request interceptor resumed after `await this.ensureAuthenticated()`: it reads
\* this.accessToken, sets the Authorization header and hands the request to the
\* transport
InterceptorResumes(c) ==
    /\ c \in active
    /\ pc[c] = "authenticated"
    /\ Dispatch(c, accessToken)
    /\ UNCHANGED <<toolCall, validation,
                   config, pool, declaredExpiry, unauthorized, now, tokenVars, cache, active,
                   started, callNo, req, consulted, exchanges, callBudget, failBudget>>

\* the AxiosError of a token exchange the token endpoint refused
TokenEndpointError ==
    AxiosErrorOf([endpoint |-> <<"oauth2", "token">>, method |-> "POST"],
                 Outcome(401, "ERR_BAD_REQUEST", ErrorBody, AbsentHeader, AbsentHeader))

\* the token exchange failed: authenticate's catch replaces the error by a plain Error
TokenExchangeFails(c) ==
    /\ c \in active
    /\ pc[c] = "authenticating"
    /\ failBudget > 0
    /\ failBudget' = failBudget - 1
    /\ \E rnd \in RandomSamples :
          AttemptFailed(c, authenticateCatch(TokenEndpointError),
                        Attempted(NotDispatched, FALSE), rnd)
    /\ UNCHANGED <<toolCall, validation,
                   config, pool, declaredExpiry, unauthorized, now, cache, active, started, callNo, req, consulted, exchanges,
                   callBudget>>

\* the upstream outcome of the dispatched request arrives: axios settles the promise
\* by validateStatus, the response interceptors run, executeWithRetry returns or
\* catches, and on a return the facade method finishes
Response(c, out) ==
    /\ c \in active
    /\ pc[c] = "inflight"
    /\ IF out.status # 0 /\ validateStatus(out.status)
       THEN /\ hist' = [hist EXCEPT ![c] = Append(@, Attempted(out, TRUE))]
            /\ pc' = [pc EXCEPT ![c] = "done"]
            /\ cache' = Completion(cache, req[c], out, now).cache
            /\ result' = [result EXCEPT ![c] = Completion(cache, req[c], out, now).result]
            /\ UNCHANGED <<tokenVars, delays, wakeAt, attempt, header, lastError, normalized,
                           failBudget>>
       ELSE /\ failBudget' = failBudget - 1
            /\ \E rnd \in RandomSamples :
                 AttemptFailed(c, AxiosErrorOf(req[c], out),
                               Attempted(out, TRUE), rnd)
            /\ UNCHANGED cache
    /\ UNCHANGED <<toolCall, validation,
                   config, pool, declaredExpiry, unauthorized, now, active, started, callNo, req, consulted, exchanges, callBudget>>

\* a retry that resends the request as the interceptor left it
RetryEntrySkipsInterceptor == "authenticated"

\* the loop's next `await operation()`: a new axios request, which starts at the
\* request interceptor
RetryEntry == "request"

\* a loop counter all calls share
NextAttemptShared(att, c) == [d \in Callers |-> att[d] + 1]

\* the for loop's attempt++: attempt is a local of the executeWithRetry invocation
NextAttempt(att, c) == [att EXCEPT ![c] = @ + 1]

\* sleep() resolved, at wakeAt or later: the loop increments attempt and either invokes operation()
\* again or, its condition false, falls through to the final throw
Wake(c) ==
    /\ c \in active
    /\ pc[c] = "sleeping"
    /\ now' = IF now >= wakeAt[c] THEN now ELSE wakeAt[c]
    /\ attempt' = NextAttempt(attempt, c)
    /\ IF LoopCondition(attempt'[c])
       THEN /\ pc' = [pc EXCEPT ![c] = RetryEntry]
            /\ UNCHANGED result
       ELSE /\ pc' = [pc EXCEPT ![c] = "done"]
            /\ result' = [result EXCEPT ![c] = Failure(req[c], FinalThrow(lastError[c]))]
    /\ UNCHANGED <<toolCall, validation,
                   config, pool, declaredExpiry, unauthorized, tokenVars, cache, active, started, callNo, req, hist, delays,
                   wakeAt, header, consulted, exchanges, lastError, normalized, callBudget, failBudget>>

\* clearIdleConnections(): this.httpAgent and this.httpsAgent are destroyed and
\* replaced by new agents; the axios instance keeps the agents it was created with
ClearIdleConnections ==
    /\ pool.agent < MaxClears
    /\ pool' = [pool EXCEPT !.agent = @ + 1,
                            !.http = AgentOptions(ClearedPoolConfig),
                            !.https = AgentOptions(ClearedPoolConfig)]
    /\ pc' = [c \in Callers |-> IF LosesSocket(pool, pc[c]) THEN "reset" ELSE pc[c]]
    /\ UNCHANGED <<toolCall, validation,
                   config, declaredExpiry, unauthorized, now, tokenVars, cache, active,
                   started, callNo, req, attempt, hist, delays, wakeAt, header, consulted,
                   exchanges, lastError, normalized, result, callBudget, failBudget>>

\* the request whose socket was destroyed is rejected without a response
SocketReset(c, out) ==
    /\ c \in active
    /\ pc[c] = "reset"
    /\ \E rnd \in RandomSamples :
          AttemptFailed(c, AxiosErrorOf(req[c], out), Attempted(out, TRUE), rnd)
    /\ UNCHANGED <<toolCall, validation,
                   config, pool, declaredExpiry, unauthorized, now, cache, active, started,
                   callNo, req, consulted, exchanges, callBudget, failBudget>>

\* closePool() up to its sleep: this.httpAgent and this.httpsAgent are destroyed.
\* Nothing else is changed: the agents stay in place, and so does the axios instance.
ClosePool ==
    /\ ~pool.closing
    /\ pool.closes < MaxCloses
    /\ pool' = [pool EXCEPT !.closing = TRUE, !.closeAt = now + TimerMs(closeGrace)]
    /\ pc' = [c \in Callers |-> IF LosesSocket(pool, pc[c]) THEN "reset" ELSE pc[c]]
    /\ UNCHANGED <<toolCall, validation,
                   config, declaredExpiry, unauthorized, now, tokenVars, cache, active,
                   started, callNo, req, attempt, hist, delays, wakeAt, header, consulted,
                   exchanges, lastError, normalized, result, callBudget, failBudget>>

\* closePool() resumed after `await this.sleep(100)`: it returns
ClosePoolReturns ==
    /\ pool.closing
    /\ now' = IF now >= pool.closeAt THEN now ELSE pool.closeAt
    /\ pool' = [pool EXCEPT !.closing = FALSE, !.closes = @ + 1]
    /\ UNCHANGED <<toolCall, validation,
                   config, declaredExpiry, unauthorized, tokenVars, cache, active, started,
                   callNo, pc, req, attempt, hist, delays, wakeAt, header, consulted,
                   exchanges, lastError, normalized, result, callBudget, failBudget>>

\* the instants at which a comparison with Date.now() changes its answer
Deadlines ==
    {tokenExpiresAt}
    \cup {cache[k].expires : k \in {x \in CacheKeys : cache[x].present}}

\* time passes between two calls
Tick(t) ==
    /\ t > now
    /\ started < callBudget
    /\ \A c \in active : pc[c] \in {"idle", "done"}
    /\ now' = t
    /\ UNCHANGED <<toolCall, validation,
                   config, pool, declaredExpiry, unauthorized, tokenVars, cache, active, started, callNo, pc, req, attempt, hist,
                   delays, wakeAt, header, consulted, exchanges, lastError, normalized, result,
                   callBudget, failBudget>>

Calls ==
    \/ \E c \in Callers, i \in GetInputs : Get(c, i[1], i[2], i[3])
    \/ \E c \in Callers : Post(c, <<"conversations">>)
    \/ \E c \in Callers : Put(c, <<"conversations", "1">>)
    \/ \E c \in Callers : Patch(c, <<"conversations", "1">>)
    \/ \E c \in Callers : GetAttachmentData(c)
    \/ \E c \in Callers : TestConnection(c)

Next ==
    \/ Calls
    \/ \E c \in Callers : RequestInterceptor(c)
    \/ \E c \in Callers, tk \in IssuedTokens, l \in ExpiresIn : TokenExchangeSucceeds(c, tk, l)
    \/ \E c \in Callers : TokenExchangeFails(c)
    \/ \E c \in Callers : InterceptorResumes(c)
    \/ \E c \in Callers : \E out \in Outcomes(req[c], failBudget) : Response(c, out)
    \/ \E c \in Callers : Wake(c)

NextSeq ==
    \/ Calls
    \/ \E c \in Callers : RequestInterceptor(c)
    \/ \E c \in Callers, tk \in IssuedTokens, l \in ExpiresIn : TokenExchangeSucceeds(c, tk, l)
    \/ \E c \in Callers : InterceptorResumes(c)
    \/ \E c \in Callers : \E out \in Outcomes(req[c], failBudget) : Response(c, out)
    \/ \E c \in Callers : Wake(c)
    \/ \E t \in Deadlines : Tick(t)

\* The transport outcomes transformError can be handed: a response status or none,
\* a client error code, the retry-after header of a 429, a request config or none
TransportStatuses == {200, 302, 400, 401, 403, 404, 409, 418, 422, 429, 499, 500, 503, 599}
TransportCodes == {UNDEFINED, "ECONNABORTED", "ECONNRESET", "ERR_BAD_REQUEST"}

TransportErrors ==
    {[NoError EXCEPT !.type = "AxiosError", !.code = code, !.hasResponse = TRUE,
                     !.status = st, !.hasConfig = TRUE, !.requestId = "r1",
                     !.url = Mailboxes, !.method = "GET"] :
        st \in TransportStatuses, code \in TransportCodes}
    \cup {[NoError EXCEPT !.type = "AxiosError", !.code = "ERR_BAD_REQUEST",
                          !.hasResponse = TRUE, !.status = 429, !.retryAfterHeader = h,
                          !.hasConfig = TRUE, !.requestId = "r1", !.url = Mailboxes,
                          !.method = "GET"] : h \in RetryAfterHeaders}
    \cup {[NoError EXCEPT !.type = "AxiosError", !.code = code, !.hasConfig = cfg] :
            code \in TransportCodes, cfg \in BOOLEAN}
    \cup {AuthenticationError}

\* two rejections awaiting the response interceptor's rejection handler, on a
\* client holding a token
InitNormalize ==
    /\ config = [apiKey |-> <<>>, clientId |-> "id", clientSecret |-> "secret"]
    /\ now = 0
    /\ accessToken = "t1"
    /\ tokenExpiresAt = TokenExpiry(0, 120)
    /\ declaredExpiry = 120 * 1000
    /\ cache = [k \in CacheKeys |-> NoEntry]
    /\ started = 0
    /\ callNo = [c \in Callers |-> 0]
    /\ active = Callers
    /\ pc = [c \in Callers |-> "rejected"]
    /\ req = [c \in Callers |-> NoReq]
    /\ attempt = [c \in Callers |-> 0]
    /\ hist = [c \in Callers |-> <<>>]
    /\ delays = [c \in Callers |-> <<>>]
    /\ wakeAt = [c \in Callers |-> 0]
    /\ header = [c \in Callers |-> "none"]
    /\ consulted = [c \in Callers |-> FALSE]
    /\ exchanges = [c \in Callers |-> 0]
    /\ lastError \in [Callers -> TransportErrors]
    /\ result = [c \in Callers |-> NoResult]
    /\ pool = NewPool
    /\ unauthorized = [c \in Callers |-> FALSE]
    /\ normalized = [c \in Callers |-> 0]
    /\ callBudget = 0
    /\ failBudget = 0
    /\ NoToolCallMade

\* the response interceptor's rejection handler applied to the pending rejection:
\* transformError, with its side effect on the token, and the rejection it returns
Normalize(c) ==
    /\ pc[c] = "rejected"
    /\ accessToken' = IF InvalidatesToken(lastError[c]) THEN NULL ELSE accessToken
    /\ result' = [result EXCEPT ![c] = Thrown(ErrorInterceptor(lastError[c]))]
    /\ normalized' = [normalized EXCEPT ![c] = @ + 1]
    /\ pc' = [pc EXCEPT ![c] = "done"]
    /\ UNCHANGED <<toolCall, validation,
                   config, pool, declaredExpiry, unauthorized, now, tokenExpiresAt, cache,
                   active, started, callNo, req, attempt, hist, delays, wakeAt, header,
                   consulted, exchanges, lastError, callBudget, failBudget>>

NextNormalize == \E c \in Callers : Normalize(c)

\* the error normalizer on its own, over every transport outcome
SpecNormalize == InitNormalize /\ [][NextNormalize]_vars

\* a call whose attempt with index attempt[c] has just failed with a server error,
\* about to enter the backoff branch
InitBackoff ==
    /\ config = [apiKey |-> <<"Bearer ", "pat">>, clientId |-> "id", clientSecret |-> "secret"]
    /\ now = 0
    /\ accessToken = "pat"
    /\ tokenExpiresAt = twentyFourHours
    /\ declaredExpiry = 0
    /\ cache = [k \in CacheKeys |-> NoEntry]
    /\ started = 1
    /\ callNo = [c \in Callers |-> IF c = "a" THEN 1 ELSE 0]
    /\ active = {"a"}
    /\ pc = [c \in Callers |-> IF c = "a" THEN "caught" ELSE "idle"]
    /\ req = [c \in Callers |-> IF c = "a" THEN Req("put", "PUT", <<"conversations", "1">>,
                                                     UNDEFINED, <<>>)
                                 ELSE NoReq]
    /\ attempt \in {[c \in Callers |-> IF c = "a" THEN k ELSE 0] : k \in 0 .. MaxBackoffAttempt}
    /\ hist = [c \in Callers |->
                  IF c = "a"
                  THEN <<Attempted(Outcome(500, "ERR_BAD_RESPONSE", ErrorBody, AbsentHeader,
                                           AbsentHeader), TRUE)>>
                  ELSE <<>>]
    /\ delays = [c \in Callers |-> <<>>]
    /\ wakeAt = [c \in Callers |-> 0]
    /\ header = [c \in Callers |-> IF c = "a" THEN "pat" ELSE "none"]
    /\ consulted = [c \in Callers |-> FALSE]
    /\ exchanges = [c \in Callers |-> 0]
    /\ lastError = [c \in Callers |->
                       IF c = "a"
                       THEN ErrorInterceptor(AxiosErrorOf(req[c], Outcome(500, "ERR_BAD_RESPONSE",
                                ErrorBody, AbsentHeader, AbsentHeader)))
                       ELSE NoError]
    /\ result = [c \in Callers |-> NoResult]
    /\ pool = NewPool
    /\ unauthorized = [c \in Callers |-> FALSE]
    /\ normalized = [c \in Callers |-> IF c = "a" THEN 1 ELSE 0]
    /\ callBudget = 1
    /\ failBudget = 0
    /\ NoToolCallMade

\* executeWithRetry, "Standard exponential backoff": the delay is computed from the
\* attempt index and the policy, and the call sleeps for it
Backoff(c, rnd) ==
    LET delay == calculateRetryDelay(attempt[c], retryDelay, maxRetryDelay, rnd)
    IN  /\ pc[c] = "caught"
        /\ ~IsRateLimited(lastError[c])
        /\ delays' = [delays EXCEPT ![c] = Append(@, delay)]
        /\ wakeAt' = [wakeAt EXCEPT ![c] = now + TimerMs(delay)]
        /\ pc' = [pc EXCEPT ![c] = "sleeping"]
        /\ UNCHANGED <<toolCall, validation,
                       config, pool, declaredExpiry, unauthorized, now, tokenVars, cache,
                       active, started, callNo, req, attempt, hist, header, consulted,
                       exchanges, lastError, normalized, result, callBudget, failBudget>>

\* the sleep of the backoff branch is over
BackoffElapsed(c) ==
    /\ pc[c] = "sleeping"
    /\ now' = wakeAt[c]
    /\ pc' = [pc EXCEPT ![c] = "done"]
    /\ UNCHANGED <<toolCall, validation,
                   config, pool, declaredExpiry, unauthorized, tokenVars, cache, active,
                   started, callNo, req, attempt, hist, delays, wakeAt, header, consulted,
                   exchanges, lastError, normalized, result, callBudget, failBudget>>

NextBackoff ==
    \/ \E c \in Callers, rnd \in RandomDraws : Backoff(c, rnd)
    \/ \E c \in Callers : BackoffElapsed(c)

\* the backoff computation on its own, over every attempt index and random draw
SpecBackoff == InitBackoff /\ [][NextBackoff]_vars

\* one get on a client configured with a static token, over a network that may fail
\* one request
InitTtl ==
    /\ InitClient
    /\ IsPersonalAccessToken(config.apiKey)
    /\ callBudget = 1
    /\ failBudget = 1

CallsTtl ==
    \E c \in Callers, e \in TtlEndpoints, p \in ParamSets, o \in CacheOptions : Get(c, e, p, o)

NextTtl ==
    \/ CallsTtl
    \/ \E c \in Callers : RequestInterceptor(c)
    \/ \E c \in Callers : InterceptorResumes(c)
    \/ \E c \in Callers : \E out \in Outcomes(req[c], failBudget) : Response(c, out)
    \/ \E c \in Callers : Wake(c)

\* get over every kind of endpoint and every cacheOptions
SpecTtl == InitTtl /\ [][NextTtl]_vars

\* a client configured with a static token, used by two callers at once for one
\* call each, over a network that may fail as many requests as one call can make
InitIndependent ==
    /\ NewClient
    /\ IsPersonalAccessToken(config.apiKey)
    /\ active = Callers
    /\ callBudget = MaxIndependentCalls
    /\ failBudget = retries + 1

CallsIndependent == \E c \in Callers : Put(c, <<"conversations", "1">>)

\* the outcomes of a request in SpecIndep: the payload, or a server error
OutcomesIndependent(r, budget) ==
    {o \in Outcomes(r, budget) : (o.status = 200 /\ o.data = "d1") \/ o.status = 500}

NextIndependent ==
    \/ CallsIndependent
    \/ \E c \in Callers : RequestInterceptor(c)
    \/ \E c \in Callers : InterceptorResumes(c)
    \/ \E c \in Callers : \E out \in OutcomesIndependent(req[c], failBudget) : Response(c, out)
    \/ \E c \in Callers : Wake(c)

\* the next step of the call of caller c: at most one of these is enabled at a time
StepIndependent(c) ==
    \/ RequestInterceptor(c)
    \/ InterceptorResumes(c)
    \/ \E out \in OutcomesIndependent(req[c], failBudget) : Response(c, out)
    \/ Wake(c)

\* the event loop runs every continuation that is ready, every timer fires, and
\* every dispatched request is settled
IndependentFairness == \A c \in Callers : WF_vars(StepIndependent(c))

\* two calls retried side by side
SpecIndep == InitIndependent /\ [][NextIndependent]_vars /\ IndependentFairness

\* one call on a client configured with a static token, over a network that may
\* fail, while the application clears idle connections
InitPool ==
    /\ InitClient
    /\ IsPersonalAccessToken(config.apiKey)
    /\ callBudget = 1
    /\ failBudget = retries

NextPool ==
    \/ Calls
    \/ \E c \in Callers : RequestInterceptor(c)
    \/ \E c \in Callers : InterceptorResumes(c)
    \/ \E c \in Callers : \E out \in Outcomes(req[c], failBudget) : Response(c, out)
    \/ \E c \in Callers : \E out \in ResetFailures : SocketReset(c, out)
    \/ \E c \in Callers : Wake(c)
    \/ ClearIdleConnections

\* the event loop runs every continuation that is ready, every timer fires, and every
\* dispatched request is settled (by a response, an error, or the 30 s timeout)
PoolFairness ==
    \A c \in Callers :
        /\ WF_vars(RequestInterceptor(c))
        /\ WF_vars(InterceptorResumes(c))
        /\ WF_vars(\E out \in Outcomes(req[c], failBudget) : Response(c, out))
        /\ WF_vars(\E out \in ResetFailures : SocketReset(c, out))
        /\ WF_vars(Wake(c))

SpecPool == InitPool /\ [][NextPool]_vars /\ PoolFairness

\* a fresh client holding complete credentials, used by two callers at once, over
\* a network that answers every request
InitConcurrent ==
    /\ NewClient
    /\ ~MissingCredentials(config)
    /\ active = Callers
    /\ callBudget = MaxConcurrentCalls
    /\ failBudget = 0

CallsConcurrent ==
    \/ \E c \in Callers : Get(c, <<"conversations", "1">>, UNDEFINED, <<>>)
    \/ \E c \in Callers : Post(c, <<"conversations">>)

\* the answers of the upstream service in SpecConc: the payload, or a 401
AnswersConcurrent(r) ==
    {o \in Answers(r) : o.status = 401 \/ (Success(o.status) /\ o.data = "d1"
                                             /\ o.resourceId = AbsentHeader)}

NextConcurrent ==
    \/ CallsConcurrent
    \/ \E c \in Callers : RequestInterceptor(c)
    \/ \E c \in Callers, tk \in IssuedTokens, l \in ExpiresIn : TokenExchangeSucceeds(c, tk, l)
    \/ \E c \in Callers : InterceptorResumes(c)
    \/ \E c \in Callers : \E out \in AnswersConcurrent(req[c]) : Response(c, out)

\* calls of two callers interleaved at every suspension point
SpecConc == InitConcurrent /\ [][NextConcurrent]_vars

\* a client constructed with any of the pool configurations and a static token,
\* used for two calls one after the other while the application clears idle
\* connections and closes the pool
InitShutdown ==
    /\ NewClientFields
    /\ NoToolCallMade
    /\ pool \in {ConstructPool(p) : p \in PoolConfigs}
    /\ IsPersonalAccessToken(config.apiKey)
    /\ active = {"a"}
    /\ callBudget = 2
    /\ failBudget = 0

CallsShutdown ==
    \/ \E c \in Callers : Get(c, <<"conversations", "1">>, UNDEFINED, <<>>)
    \/ \E c \in Callers : Put(c, <<"conversations", "1">>)

NextShutdown ==
    \/ CallsShutdown
    \/ \E c \in Callers : RequestInterceptor(c)
    \/ \E c \in Callers : InterceptorResumes(c)
    \/ \E c \in Callers : \E out \in AnswersConcurrent(req[c]) : Response(c, out)
    \/ \E c \in Callers : \E out \in ResetFailures : SocketReset(c, out)
    \/ \E c \in Callers : Wake(c)
    \/ ClearIdleConnections
    \/ ClosePool
    \/ ClosePoolReturns

\* the pool operations interleaved with calls
SpecShutdown == InitShutdown /\ [][NextShutdown]_vars

\* what the token endpoint answers the exchange of caller c: each caller's exchanges
\* return a token and a lifetime of their own
ExchangeResponse(c) ==
    IF c = "a" THEN [access_token |-> "t1", expires_in |-> 120]
    ELSE [access_token |-> "t2", expires_in |-> 30]

NextExchange ==
    \/ CallsConcurrent
    \/ \E c \in Callers : RequestInterceptor(c)
    \/ \E c \in Callers :
          TokenExchangeSucceeds(c, ExchangeResponse(c).access_token,
                                ExchangeResponse(c).expires_in)
    \/ \E c \in Callers : InterceptorResumes(c)
    \/ \E c \in Callers : \E out \in AnswersConcurrent(req[c]) : Response(c, out)

\* calls of two callers interleaved at every suspension point, the exchanges of
\* each caller told apart by what they return
SpecExchange == InitConcurrent /\ [][NextExchange]_vars

\* the answers to a read: a 200 with each payload
ReadAnswers(r) ==
    {Outcome(200, "none", d, AbsentHeader, AbsentHeader) : d \in Payloads}

\* MaxReads gets of two callers on a fresh client with a static token, over a network
\* that answers
InitReads ==
    /\ NewClient
    /\ IsPersonalAccessToken(config.apiKey)
    /\ active = Callers
    /\ callBudget = MaxReads
    /\ failBudget = 0

\* the same get, whoever issues it
CallsReads == \E c \in Callers : Get(c, <<"conversations", "1">>, UNDEFINED, <<>>)

NextReads ==
    \/ CallsReads
    \/ \E c \in Callers : RequestInterceptor(c)
    \/ \E c \in Callers : InterceptorResumes(c)
    \/ \E c \in Callers : \E out \in ReadAnswers(req[c]) : Response(c, out)

\* identical gets of two callers interleaved at every suspension point
SpecReads == InitReads /\ [][NextReads]_vars

\* the client configured for the OAuth2 client-credentials exchange
OAuthConfig == [apiKey |-> <<>>, clientId |-> "id", clientSecret |-> "secret"]

\* expires_in of the tokens issued in SpecReauth: 61 s leaves the token one second of
\* use, less than the first backoff; 120 s outlasts every backoff of a call
ExpiresInReauth == {61, 120}

\* a 2xx payload or a 500
OutcomesReauth(r, budget) ==
    {Outcome(200, "none", "d1", AbsentHeader, AbsentHeader)}
    \cup (IF budget > 0
          THEN {Outcome(500, "ERR_BAD_RESPONSE", ErrorBody, AbsentHeader, AbsentHeader)}
          ELSE {})

\* one call on a fresh OAuth2 client, over a network and a token endpoint that may fail
InitReauth ==
    InitClient /\ config = OAuthConfig /\ callBudget = 1 /\ failBudget = retries + 1

CallsReauth ==
    \/ \E c \in Callers : Get(c, <<"conversations", "1">>, UNDEFINED, <<>>)
    \/ \E c \in Callers : Put(c, <<"conversations", "1">>)

NextReauth ==
    \/ CallsReauth
    \/ \E c \in Callers : RequestInterceptor(c)
    \/ \E c \in Callers, tk \in IssuedTokens, l \in ExpiresInReauth :
          TokenExchangeSucceeds(c, tk, l)
    \/ \E c \in Callers : TokenExchangeFails(c)
    \/ \E c \in Callers : InterceptorResumes(c)
    \/ \E c \in Callers : \E out \in OutcomesReauth(req[c], failBudget) : Response(c, out)
    \/ \E c \in Callers : Wake(c)

\* a retried call whose token runs out during the backoff
SpecReauth == InitReauth /\ [][NextReauth]_vars

\* a client at rest and one tool call for the advisor to validate
InitValidate ==
    /\ NewClientFields
    /\ pool = NewPool
    /\ config = OAuthConfig
    /\ active = {}
    /\ callBudget = 0
    /\ failBudget = 0
    /\ \E n \in KnownTools \cup {UnknownTool} : toolCall \in ContextsOf(n)
    /\ validation = NoValidation

\* HelpScoutAPIConstraints.validateToolCall(context)
ValidateToolCall ==
    /\ ~validation.done
    /\ validation' = validateToolCall(toolCall)
    /\ UNCHANGED <<toolCall, config, now, accessToken, tokenExpiresAt, cache, active,
                   started, callNo, callBudget, failBudget, pc, req, attempt, hist, delays,
                   wakeAt, header, consulted, exchanges, lastError, result, pool,
                   declaredExpiry, unauthorized, normalized>>

NextValidate == ValidateToolCall

\* the advisor on its own, over every tool, argument set, query and history
SpecValidate == InitValidate /\ [][NextValidate]_vars

\* The answers to a post: a 201 with each payload and each Resource-ID header, a
\* client error
PostAnswers(r) ==
    {Outcome(201, "none", d, AbsentHeader, h) : d \in Payloads, h \in PostResourceIds}
    \cup {Outcome(422, "none", ErrorBody, AbsentHeader, AbsentHeader)}

\* MaxPosts posts one after the other on a fresh client with credentials, over a
\* network that answers
InitPost ==
    InitClient /\ ~MissingCredentials(config) /\ callBudget = MaxPosts /\ failBudget = 0

CallsPost == \E c \in Callers : Post(c, <<"conversations">>)

NextPost ==
    \/ CallsPost
    \/ \E c \in Callers : RequestInterceptor(c)
    \/ \E c \in Callers, tk \in IssuedTokens, l \in ExpiresIn : TokenExchangeSucceeds(c, tk, l)
    \/ \E c \in Callers : InterceptorResumes(c)
    \/ \E c \in Callers : \E out \in PostAnswers(req[c]) : Response(c, out)

\* the facade's post alone
SpecPost == InitPost /\ [][NextPost]_vars

\* one call, every failure the network can produce
Spec == Init /\ [][Next]_vars

\* a sequence of calls sharing the token and the cache, with time passing between them
SpecSeq == InitSeq /\ [][NextSeq]_vars

-----------------------------------------------------------------------------
(* Properties *)

MaxAttempts == retries + 1

\* the upstream requests a call has dispatched
Sent(c) == Cardinality({i \in DOMAIN hist[c] : hist[c][i].sent})

\* in this step caller c issued a facade call
Issued(c) == callNo'[c] # callNo[c]

\* in this step caller c received the outcome of an attempt
Received(c) == Len(hist'[c]) = Len(hist[c]) + 1

\* in this step the call of caller c advanced
Moved(c) == Issued(c) \/ pc'[c] # pc[c] \/ hist'[c] # hist[c]

NonTransientClientError(st) == st >= 400 /\ st <= 499 /\ st # 429

\* the error kind the mapping table gives a non-transient 4xx status
KindOfClientError(st) ==
    IF st \in {401, 403} THEN "UNAUTHORIZED"
    ELSE IF st = 404 THEN "NOT_FOUND"
    ELSE "INVALID_INPUT"

IsNormalizedError(e) == e.type = "ApiError" /\ e.code \in ErrorKinds

(* C1: a get issued while a live cache entry exists for its endpoint and params
   returns the stored value at once, with no token exchange and no upstream
   request. *)
C1_CacheHitServesStoredValue ==
    [][\A c \in Callers :
          LET key == cacheKey(req'[c].endpoint, req'[c].params)
          IN  (Issued(c) /\ req'[c].op = "get" /\ Live(cache, key, now))
              => /\ pc'[c] = "done"
                 /\ result'[c] = Returned(cache[key].value, <<>>)
                 /\ hist'[c] = <<>>
                 /\ exchanges'[c] = 0]_vars

\* a second get in flight although a live entry, holding an empty body, exists for
\* its endpoint and params
C1_Witness ==
    \E c \in Callers :
        LET key == cacheKey(req[c].endpoint, req[c].params)
        IN  /\ req[c].op = "get"
            /\ callNo[c] = 2
            /\ pc[c] = "inflight"
            /\ Live(cache, key, now)
            /\ cache[key].value = EmptyBody

UncachedOps == {"post", "put", "patch", "getAttachmentData"}

(* C2: no step of a post, put, patch or getAttachmentData call changes the cache,
   and such a call never reads it. *)
C2_MutatingCallsLeaveCacheAlone ==
    [][\A c \in Callers :
          (Moved(c) /\ req'[c].op \in UncachedOps)
          => (cache' = cache /\ ~consulted'[c])]_vars

\* a post that was retried until the budget was exhausted, and failed
C2_Witness ==
    \E c \in Callers :
        /\ req[c].op = "post"
        /\ pc[c] = "done"
        /\ Len(hist[c]) = MaxAttempts
        /\ result[c].status = "thrown"

(* C3: an upstream response with a non-transient 4xx status ends the call without
   a retry, and the call fails with a NormalizedError of the kind the table gives
   (401, 403: UNAUTHORIZED; 404: NOT_FOUND; 422 and other 4xx: INVALID_INPUT). *)
C3_ClientErrorsFailWithoutRetry ==
    \A c \in Callers : \A i \in DOMAIN hist[c] :
        (/\ req[c].op # "testConnection"
         /\ hist[c][i].sent
         /\ NonTransientClientError(hist[c][i].out.status))
        => /\ i = Len(hist[c])
           /\ pc[c] = "done"
           /\ result[c].status = "thrown"
           /\ IsNormalizedError(result[c].error)
           /\ result[c].error.code = KindOfClientError(hist[c][i].out.status)

\* a get answered 404 that returned the error body as its result
C3_Witness ==
    \E c \in Callers :
        /\ req[c].op = "get"
        /\ pc[c] = "done"
        /\ Len(hist[c]) = 1
        /\ hist[c][1].out.status = 404
        /\ result[c] = Returned(ErrorBody, <<>>)

(* C4: when a call receives an HTTP 401 from the upstream service, the cached
   access token is cleared. *)
C4_UnauthorizedClearsToken ==
    [][\A c \in Callers :
          (Received(c) /\ Last(hist'[c]).sent /\ Last(hist'[c]).out.status = 401)
          => accessToken' = NULL]_vars

\* a call answered 401 with the token still in place
C4_Witness ==
    \E c \in Callers :
        /\ hist[c] # <<>>
        /\ Last(hist[c]).sent
        /\ Last(hist[c]).out.status = 401
        /\ accessToken # NULL

\* the seconds a 429 asks to wait: its Retry-After header, 60 when absent
RetryAfterSeconds(hdr) == IF hdr = AbsentHeader THEN 60 ELSE parseInt(hdr)

(* C5: when an attempt receives HTTP 429 and attempts remain, the executor sleeps
   min(Retry-After * 1000, maxRetryDelay) ms before the next attempt. *)
C5_RateLimitWaitsRetryAfter ==
    [][\A c \in Callers :
          (/\ Received(c)
           /\ Last(hist'[c]).sent
           /\ Last(hist'[c]).out.status = 429
           /\ Len(hist'[c]) < MaxAttempts)
          => /\ pc'[c] = "sleeping"
             /\ Len(delays'[c]) = Len(hist'[c])
             /\ Last(delays'[c]) =
                   Min(RetryAfterSeconds(Last(hist'[c]).out.retryAfter) * 1000,
                       maxRetryDelay)]_vars

\* a 429 with Retry-After: 5 on the first attempt, and the call over without a sleep
C5_Witness ==
    \E c \in Callers :
        /\ Len(hist[c]) = 1
        /\ hist[c][1].out.status = 429
        /\ hist[c][1].out.retryAfter = <<"5">>
        /\ pc[c] = "done"
        /\ delays[c] = <<>>

OnlyServerErrors(h) ==
    \A i \in DOMAIN h : h[i].sent /\ ServerError(h[i].out.status)

Front(h) == SubSeq(h, 1, Len(h) - 1)

Retrying(c) ==
    pc[c] \in {"sleeping", "request", "authenticating", "authenticated", "inflight", "reset"}

(* C6: for every k up to MaxAttempts, a call whose first k-1 attempts failed with
   HTTP 5xx is still being retried, and when attempt k then returns a 2xx the call
   succeeds with that attempt's payload after exactly k upstream requests. *)
C6_SuccessAfterServerErrors ==
    \A c \in Callers :
        /\ (hist[c] # <<>> /\ OnlyServerErrors(hist[c]) /\ Len(hist[c]) < MaxAttempts)
           => Retrying(c)
        /\ (/\ hist[c] # <<>>
            /\ OnlyServerErrors(Front(hist[c]))
            /\ Last(hist[c]).sent
            /\ Success(Last(hist[c]).out.status))
           => /\ pc[c] = "done"
              /\ result[c].status = "ok"
              /\ Sent(c) = Len(hist[c])
              /\ (req[c].op # "testConnection" /\ Last(hist[c]).out.status # 204)
                 => result[c].value = Last(hist[c]).out.data

\* three 500s, then a 200 on the last allowed attempt
C6_Witness ==
    \E c \in Callers :
        /\ Len(hist[c]) = MaxAttempts
        /\ OnlyServerErrors(Front(hist[c]))
        /\ Last(hist[c]).out.status = 200
        /\ result[c].status = "ok"
        /\ result[c].value = "d2"

\* an attempt that ended in a failure: nothing dispatched, no response, or a 5xx
FailedAttempt(a) == ~a.sent \/ a.out.status = 0 \/ ServerError(a.out.status)

(* C7: a call makes at most retries + 1 attempts; an attempt that returns a 2xx is
   the last one; after a failure on the last allowed attempt the call has ended
   with that failure, having slept only between attempts. *)
C7_AttemptsBounded ==
    \A c \in Callers :
        /\ Len(hist[c]) <= MaxAttempts
        /\ attempt[c] <= retries
        /\ \A i \in DOMAIN hist[c] :
              (hist[c][i].sent /\ Success(hist[c][i].out.status))
              => (i = Len(hist[c]) /\ pc[c] = "done")
        /\ (Len(hist[c]) = MaxAttempts /\ FailedAttempt(Last(hist[c])))
           => /\ pc[c] = "done"
              /\ Len(delays[c]) = retries
              /\ result[c] = Failure(req[c], lastError[c])

\* four failed attempts and the failure delivered
C7_Witness ==
    \E c \in Callers :
        /\ Len(hist[c]) = MaxAttempts
        /\ FailedAttempt(Last(hist[c]))
        /\ pc[c] = "done"
        /\ result[c].status = "thrown"

\* a dispatched attempt that failed transiently: timeout, no response, 5xx or 429
TransientFailure(a) ==
    a.sent /\ (a.out.status = 0 \/ ServerError(a.out.status) \/ a.out.status = 429)

(* C8: a call all of whose attempts failed transiently (timeout, no response, 5xx,
   429) has made exactly MaxAttempts upstream requests when it ends, and ends with
   a NormalizedError. *)
C8_TransientFailuresExhaustBudget ==
    \A c \in Callers :
        (/\ pc[c] = "done"
         /\ req[c].op # "testConnection"
         /\ hist[c] # <<>>
         /\ \A i \in DOMAIN hist[c] : TransientFailure(hist[c][i]))
        => /\ Sent(c) = MaxAttempts
           /\ result[c].status = "thrown"
           /\ IsNormalizedError(result[c].error)

\* a post answered 429 once, handed to the caller as its result
C8_Witness ==
    \E c \in Callers :
        /\ req[c].op = "post"
        /\ pc[c] = "done"
        /\ Sent(c) = 1
        /\ hist[c][1].out.status = 429
        /\ result[c].status = "ok"

\* the read of /mailboxes failed: authentication failure, no response, 4xx or 5xx
ReadFailed(a) == ~a.sent \/ a.out.status = 0 \/ a.out.status >= 400

(* C9: testConnection never throws, and returns false whenever its read of
   /mailboxes failed (authentication failure, 4xx, 5xx, timeout, network error). *)
C9_TestConnectionFalseOnFailure ==
    \A c \in Callers :
        (req[c].op = "testConnection" /\ pc[c] = "done")
        => /\ result[c].status = "ok"
           /\ (hist[c] # <<>> /\ ReadFailed(Last(hist[c])))
              => result[c].value = "false"

\* testConnection answering true to a 401
C9_Witness ==
    \E c \in Callers :
        /\ req[c].op = "testConnection"
        /\ pc[c] = "done"
        /\ hist[c] # <<>>
        /\ Last(hist[c]).out.status = 401
        /\ result[c] = Returned("true", <<>>)

(* C10: every failure a facade call delivers to its caller is a NormalizedError,
   also when the attempt failed while authenticating, before dispatch. *)
C10_OnlyNormalizedErrors ==
    \A c \in Callers :
        result[c].status = "thrown" => IsNormalizedError(result[c].error)

\* a call that failed because authentication failed on its last attempt
C10_Witness ==
    \E c \in Callers :
        /\ result[c].status = "thrown"
        /\ hist[c] # <<>>
        /\ ~Last(hist[c]).sent

\* the kind the mapping table gives a transport outcome: st is the response status,
\* 0 when there is no response
KindOfOutcome(st, code) ==
    IF st = 429 THEN "RATE_LIMIT"
    ELSE IF st >= 400 /\ st <= 499 THEN KindOfClientError(st)
    ELSE "UPSTREAM_ERROR"

StatusOf(e) == IF e.hasResponse THEN e.status ELSE 0

(* C11: the normalizer maps every transport outcome to the one kind the table
   gives (401, 403: UNAUTHORIZED; 404: NOT_FOUND; 429: RATE_LIMIT with the parsed
   retry-after seconds; 422 and other 4xx: INVALID_INPUT; timeout, 5xx and anything
   else: UPSTREAM_ERROR), and equal outcomes get equal kinds. *)
C11_NormalizerTotalAndDeterministic ==
    /\ \A c \in Callers :
          (pc[c] = "done" /\ req[c] = NoReq)
          => /\ result[c].status = "thrown"
             /\ IsNormalizedError(result[c].error)
             /\ result[c].error.code =
                   KindOfOutcome(StatusOf(lastError[c]), lastError[c].code)
             /\ result[c].error.retryAfter =
                   IF StatusOf(lastError[c]) = 429
                   THEN <<RetryAfterSeconds(lastError[c].retryAfterHeader)>>
                   ELSE <<>>
    /\ \A c, d \in Callers :
          (/\ pc[c] = "done" /\ pc[d] = "done" /\ req[c] = NoReq /\ req[d] = NoReq
           /\ StatusOf(lastError[c]) = StatusOf(lastError[d])
           /\ lastError[c].code = lastError[d].code)
          => result[c].error.code = result[d].error.code

\* a 429 asking for 120 s and a timeout, both normalized
C11_Witness ==
    /\ pc["a"] = "done" /\ pc["b"] = "done"
    /\ req["a"] = NoReq
    /\ lastError["a"].status = 429
    /\ result["a"].error.retryAfter = <<120>>
    /\ lastError["b"].code = "ECONNABORTED" /\ ~lastError["b"].hasResponse
    /\ result["b"].error.code = "UPSTREAM_ERROR"

\* the call of c ended with a payload or with a NormalizedError
Completed(c) ==
    /\ pc[c] = "done"
    /\ \/ result[c].status = "ok"
       \/ result[c].status = "thrown" /\ IsNormalizedError(result[c].error)

(* C12: a call in progress when clearIdleConnections() has been invoked eventually
   completes, with its payload or with a NormalizedError; it is never left pending. *)
C12_ClearedCallCompletes ==
    \A c \in Callers :
        (pool.agent > 0 /\ pc[c] \notin {"idle", "done"}) ~> Completed(c)

\* a call whose only failed attempt is the one whose socket was destroyed, completed
\* with the payload of its second attempt
C12_Witness ==
    \E c \in Callers :
        /\ pool.agent > 0
        /\ failBudget = retries
        /\ Len(hist[c]) = 2
        /\ hist[c][1].out.code = "ECONNRESET"
        /\ Completed(c)
        /\ result[c] = Returned("d1", <<>>)

(* C13: a get whose attempt is answered with an error status (4xx or 5xx), or
   fails without a response or before dispatch, leaves the cache unchanged. *)
C13_CacheWrittenOnlyOnSuccess ==
    [][\A c \in Callers :
          (/\ Received(c)
           /\ req[c].op = "get"
           /\ ReadFailed(Last(hist'[c])))
          => cache' = cache]_vars

\* a get answered 404 whose error body is now a live cache entry
C13_Witness ==
    \E c \in Callers :
        LET key == cacheKey(req[c].endpoint, req[c].params)
        IN  /\ req[c].op = "get"
            /\ pc[c] = "done"
            /\ Last(hist[c]).out.status = 404
            /\ Live(cache, key, now)
            /\ cache[key].value = ErrorBody

MutatingOps == {"post", "put", "patch"}

\* every attempt so far was dispatched and failed without a response or with a 5xx
OnlyTransportFailures(h) ==
    \A i \in DOMAIN h : h[i].sent /\ (h[i].out.status = 0 \/ ServerError(h[i].out.status))

(* C14: post, put and patch run under the retry policy of the reads: while attempts
   remain, a mutating request that failed without a response, by timeout or with a
   5xx is being sent again, and one call dispatches between 1 and MaxAttempts
   requests. *)
C14_MutationsAreRetried ==
    \A c \in Callers :
        req[c].op \in MutatingOps
        => /\ Sent(c) <= MaxAttempts
           /\ (/\ hist[c] # <<>>
               /\ OnlyTransportFailures(hist[c])
               /\ Len(hist[c]) < MaxAttempts) => Retrying(c)
           /\ (pc[c] = "done" /\ \A i \in DOMAIN hist[c] : hist[c][i].sent)
              => Sent(c) >= 1

\* a put that timed out once and was answered 204 on its second request
C14_Witness ==
    \E c \in Callers :
        /\ req[c].op = "put"
        /\ pc[c] = "done"
        /\ Sent(c) = 2
        /\ hist[c][1].out.code = "ECONNABORTED"
        /\ hist[c][2].out.status = 204
        /\ result[c].status = "ok"

\* a cached access token exists and the current time is before tokenExpiresAt
CachedTokenUnexpired == accessToken # NULL /\ now < tokenExpiresAt

\* the token fields as an authentication at the current time leaves them
FreshlyAuthenticated ==
    \/ /\ accessToken' = StripBearer(config.apiKey)
       /\ tokenExpiresAt' = now + twentyFourHours
    \/ /\ accessToken' \in IssuedTokens
       /\ \E l \in ExpiresIn : tokenExpiresAt' = now + 1000 * l - 60000

(* C15: with a cached unexpired token, ensureAuthenticated makes no token exchange
   and leaves the token as it is; a token exchange starts only when an attempt,
   about to be dispatched, finds the token absent or expired; and an attempt that
   finds the token absent or expired goes on to dispatch only after an
   authentication has replaced it. *)
C15_ExchangeOnlyWhenAbsentOrExpired ==
    [][\A c \in Callers :
          /\ (pc[c] = "request" /\ pc'[c] # "request" /\ CachedTokenUnexpired)
             => /\ pc'[c] = "authenticated"
                /\ accessToken' = accessToken
                /\ tokenExpiresAt' = tokenExpiresAt
                /\ exchanges'[c] = exchanges[c]
          /\ exchanges'[c] > exchanges[c]
             => (pc[c] = "request" /\ ~CachedTokenUnexpired)
          /\ (pc'[c] = "authenticated" /\ pc[c] # "authenticated" /\ ~CachedTokenUnexpired)
             => FreshlyAuthenticated]_vars

\* a second call, made after the token of the first expired, that exchanged again
C15_Witness ==
    \E c \in Callers :
        /\ callNo[c] = 2
        /\ exchanges[c] = 1
        /\ now >= 60000
        /\ pc[c] = "done"
        /\ result[c].status = "ok"

\* the configured apiKey begins with 'Bearer '
StaticTokenConfigured == config.apiKey # <<>> /\ Head(config.apiKey) = "Bearer "

\* the configured apiKey without its 'Bearer ' prefix
StaticToken == config.apiKey[2]

(* C16: with an apiKey beginning with 'Bearer ' configured next to client
   credentials, no call ever starts a token exchange, and every authenticate()
   - the first and each one after expiry - sets the token to the configured one and
   its expiry to now + 24 h; a request sent carries that token. *)
C16_StaticTokenTakesPrecedence ==
    [][StaticTokenConfigured
       => /\ \A c \in Callers :
                /\ exchanges'[c] = 0
                /\ pc'[c] # "authenticating"
                /\ pc'[c] = "inflight" => header'[c] = StaticToken
          /\ <<accessToken, tokenExpiresAt>>' # <<accessToken, tokenExpiresAt>>
             => /\ accessToken' = StaticToken
                /\ tokenExpiresAt' = now + 24 * 60 * 60 * 1000]_vars

\* the static token adopted a second time, 24 h after the first
C16_Witness ==
    /\ StaticTokenConfigured
    /\ config.clientId = "id" /\ config.clientSecret = "secret"
    /\ accessToken = StaticToken
    /\ now = 24 * 60 * 60 * 1000
    /\ tokenExpiresAt = 2 * 24 * 60 * 60 * 1000
    /\ \E c \in Callers : callNo[c] = 2 /\ pc[c] = "inflight"

\* in this step the token exchange of caller c succeeded
Exchanged(c) == pc[c] = "authenticating" /\ pc'[c] # "authenticating" /\ Len(hist'[c]) = Len(hist[c])

\* in this step the expiry check let caller c use the cached token
PassedCachedToken(c) ==
    /\ pc[c] = "request"
    /\ pc'[c] = "authenticated"
    /\ <<accessToken, tokenExpiresAt>>' = <<accessToken, tokenExpiresAt>>

(* C17: a successful exchange at time t declaring a lifetime of L seconds sets
   tokenExpiresAt to t + 1000 L - 60000, for every L; and the expiry check lets a
   cached exchanged token through only while at least 60 s of its declared lifetime
   remain. *)
C17_ExpiryKeepsOneMinuteMargin ==
    [][\A c \in Callers :
          /\ Exchanged(c)
             => /\ \E l \in ExpiresIn : declaredExpiry' = now + 1000 * l
                /\ tokenExpiresAt' = declaredExpiry' - 60000
          /\ (PassedCachedToken(c) /\ accessToken \in IssuedTokens)
             => declaredExpiry - now >= 60000]_vars

\* a second call let through with the token the first obtained for 120 s
C17_Witness ==
    \E c \in Callers :
        /\ callNo[c] = 2
        /\ exchanges[c] = 0
        /\ pc[c] = "inflight"
        /\ header[c] \in IssuedTokens
        /\ declaredExpiry = 120 * 1000
        /\ tokenExpiresAt = 60000

\* in this step an authentication of caller c succeeded
Authenticated(c) == pc[c] \in {"request", "authenticating"} /\ pc'[c] = "authenticated"

\* in this step caller c received an HTTP 401 from the upstream service
Received401(c) ==
    Received(c) /\ Last(hist'[c]).sent /\ Last(hist'[c]).out.status = 401

(* C18: the token fields change only in a step where an authentication succeeds or
   where an upstream 401 invalidates the token, and an upstream 401 takes the token
   from Authenticated back to Unauthenticated (accessToken null). *)
C18_TokenLifecycle ==
    [][/\ <<accessToken, tokenExpiresAt>>' # <<accessToken, tokenExpiresAt>>
          => \E c \in Callers : Authenticated(c) \/ Received401(c)
       /\ \A c \in Callers :
             Received401(c) => (accessToken' = NULL /\ tokenExpiresAt' = tokenExpiresAt)]_vars

\* a finished call answered 401 with the exchanged token still cached
C18_Witness ==
    \E c \in Callers :
        /\ pc[c] = "done"
        /\ exchanges[c] = 1
        /\ Last(hist[c]).sent
        /\ Last(hist[c]).out.status = 401
        /\ accessToken \in IssuedTokens

\* the frame part on its own: the token fields change only when an authentication
\* succeeds
TokenWrittenOnlyByAuthentication ==
    [][<<accessToken, tokenExpiresAt>>' # <<accessToken, tokenExpiresAt>>
          => \E c \in Callers : Authenticated(c)]_vars

\* the token values an authentication can store
TokenValues == IssuedTokens \cup {config.apiKey[2] : x \in {y \in {1} : Len(config.apiKey) >= 2}}

(* C19: under every interleaving of concurrent calls, a request handed to the
   transport carries in its Authorization header a whole token value that an
   authentication stored, never an absent one. *)
C19_DispatchedRequestsCarryToken ==
    \A c \in Callers :
        (pc[c] = "inflight" \/ (hist[c] # <<>> /\ Last(hist[c]).sent))
        => header[c] \in TokenValues

\* caller a in flight with the token caller b's later exchange stored
C19_Witness ==
    /\ pc["a"] = "inflight" /\ exchanges["a"] = 1
    /\ pc["b"] = "authenticated" /\ exchanges["b"] = 1
    /\ header["a"] = "t1"
    /\ accessToken = "t2"

(* C20: a caller whose previous call was answered 401 makes at most one token
   exchange before its next request is dispatched, and at most one per attempt
   after that, whatever the other callers do. *)
C20_OneReauthenticationPerCaller ==
    \A c \in Callers :
        unauthorized[c]
        => /\ exchanges[c] <= Len(hist[c]) + 1
           /\ hist[c] = <<>> => exchanges[c] <= 1

\* both callers were answered 401, and both have their next request in flight after
\* one exchange each
C20_Witness ==
    \A c \in Callers :
        /\ unauthorized[c]
        /\ pc[c] = "inflight"
        /\ hist[c] = <<>>
        /\ exchanges[c] = 1

(* C21: within one call attempts never overlap: when attempt k+1 is dispatched, the
   k earlier attempts have all ended in a failure, each was followed by one sleep,
   and the sleep set after the latest failure, for the delay computed for it, has
   run its full time. *)
C21_AttemptsAreSequential ==
    [][\A c \in Callers :
          /\ (Received(c) /\ pc'[c] = "sleeping")
             => wakeAt'[c] = now + Last(delays'[c])
          /\ (pc[c] = "sleeping" /\ pc'[c] # "sleeping") => now' >= wakeAt[c]
          /\ (pc'[c] = "inflight" /\ pc[c] # "inflight")
             => /\ Len(hist[c]) = attempt[c]
                /\ Len(delays[c]) = attempt[c]
                /\ \A i \in DOMAIN hist[c] : FailedAttempt(hist[c][i])
                /\ attempt[c] > 0 => now >= wakeAt[c]]_vars

\* the third attempt of a call in flight, after two failures and both sleeps
C21_Witness ==
    \E c \in Callers :
        /\ pc[c] = "inflight"
        /\ attempt[c] = 2
        /\ Len(hist[c]) = 2
        /\ hist[c][1].sent /\ hist[c][2].sent
        /\ now >= delays[c][1] + delays[c][2]
        /\ now >= 3000

(* C22: the backoff sleep d computed at attempt index k satisfies
   min(retryDelay * 2^k, maxRetryDelay) <= d <= min(1.1 * retryDelay * 2^k,
   maxRetryDelay): at least 1000, 2000, 4000 ms for k = 0, 1, 2, and never more than
   10000 ms. *)
C22_BackoffWithinBounds ==
    [][\A c \in Callers :
          Len(delays'[c]) = Len(delays[c]) + 1
          => LET k == attempt[c]
                 d == Last(delays'[c])
                 exponential == retryDelay * Pow2(k)
             IN  /\ Min(exponential, maxRetryDelay) <= d
                 /\ d <= Min((11 * exponential) \div 10, maxRetryDelay)
                 /\ d <= 10000
                 /\ k = 0 => d >= 1000
                 /\ k = 1 => d >= 2000
                 /\ k = 2 => d >= 4000]_vars

\* a sleep cut down to the cap: attempt index 4, where 1000 * 2^4 exceeds 10000
C22_Witness ==
    \E c \in Callers :
        /\ attempt[c] = 4
        /\ delays[c] = <<maxRetryDelay>>
        /\ pc[c] = "done"
        /\ now = maxRetryDelay

\* the call of c has ended in a failure
EndedInFailure(c) == pc[c] = "done" /\ hist[c] # <<>> /\ FailedAttempt(Last(hist[c]))

(* C23: transformError runs once per failed call, when the call ends in its
   failure, and not once per attempt: it has run at most once during a call, and
   only in a call that has ended in a failure. *)
C23_NormalizedOncePerFailedCall ==
    \A c \in Callers :
        /\ normalized[c] <= 1
        /\ normalized[c] = 1 => EndedInFailure(c)
        /\ result[c].status = "thrown" => normalized[c] = 1

\* a call that succeeded on its fourth attempt, transformError having run three times
C23_Witness ==
    \E c \in Callers :
        /\ pc[c] = "done"
        /\ result[c] = Returned("d1", <<>>)
        /\ Len(hist[c]) = MaxAttempts
        /\ normalized[c] = 3

(* C24: every NormalizedError delivered to a caller carries the trace id of the
   request it comes from, the request's path and its HTTP verb, each defined, also
   when the failure happened before the request was dispatched. *)
C24_ErrorsCarryRequestCoordinates ==
    \A c \in Callers :
        result[c].status = "thrown"
        => /\ result[c].error.requestId \notin {UNDEFINED, "unknown"}
           /\ result[c].error.url = req[c].endpoint
           /\ result[c].error.method = req[c].method

\* a get that failed while authenticating, delivered without path and verb
C24_Witness ==
    \E c \in Callers :
        /\ req[c].op = "get"
        /\ result[c].status = "thrown"
        /\ IsNormalizedError(result[c].error)
        /\ ~Last(hist[c]).sent
        /\ result[c].error.requestId = "unknown"
        /\ result[c].error.url = UNDEFINED
        /\ result[c].error.method = UNDEFINED

\* the same for the failures of dispatched requests only
ErrorsOfDispatchedRequestsCarryCoordinates ==
    \A c \in Callers :
        (result[c].status = "thrown" /\ Last(hist[c]).sent)
        => /\ result[c].error.requestId \notin {UNDEFINED, "unknown"}
           /\ result[c].error.url = req[c].endpoint
           /\ result[c].error.method = req[c].method

(* C25: the NormalizedError transformError builds carries a details.suggestion
   hint, whichever branch of the mapping built it. *)
C25_EveryErrorCarriesSuggestion ==
    \A c \in Callers :
        (pc[c] = "done" /\ req[c] = NoReq /\ result[c].status = "thrown")
        => result[c].error.suggestion

\* a 409 normalized to INVALID_INPUT without a suggestion
C25_Witness ==
    \E c \in Callers :
        /\ pc[c] = "done"
        /\ req[c] = NoReq
        /\ lastError[c].hasResponse /\ lastError[c].status = 409
        /\ result[c].error.code = "INVALID_INPUT"
        /\ ~result[c].error.suggestion

\* the errors a facade call delivers all carry a suggestion
DeliveredErrorsCarrySuggestion ==
    \A c \in Callers : result[c].status = "thrown" => result[c].error.suggestion

\* the variable names the remediation message is to give, new and legacy
CredentialVariables ==
    {"HELPSCOUT_CLIENT_ID", "HELPSCOUT_CLIENT_SECRET", "HELPSCOUT_API_KEY",
     "HELPSCOUT_APP_SECRET"}

NamesCredentialVariables(message) ==
    \A v \in CredentialVariables : \E i \in DOMAIN message : message[i] = v

\* no static token is configured, and the client id or the client secret is unset
CredentialsIncomplete == ~StaticTokenConfigured /\ MissingCredentials(config)

(* C26: in client-credentials mode with the client id or the client secret unset, a
   call fails with an error whose message names HELPSCOUT_CLIENT_ID,
   HELPSCOUT_CLIENT_SECRET, HELPSCOUT_API_KEY and HELPSCOUT_APP_SECRET, and no
   request is made to the token endpoint. *)
C26_MissingCredentialsNamed ==
    \A c \in Callers :
        (CredentialsIncomplete /\ req[c].op # "testConnection")
        => /\ exchanges[c] = 0
           /\ pc[c] # "authenticating"
           /\ pc[c] = "done"
              => /\ result[c].status = "thrown"
                 /\ NamesCredentialVariables(result[c].error.message)

\* a call that failed for want of a client secret, with the generic message
C26_Witness ==
    \E c \in Callers :
        /\ CredentialsIncomplete
        /\ pc[c] = "done"
        /\ exchanges[c] = 0
        /\ Sent(c) = 0
        /\ result[c].status = "thrown"
        /\ result[c].error.message =
              <<"Help Scout API error: ", "Failed to authenticate with Help Scout API">>

\* the part that holds: the call fails and the token endpoint is never called
MissingCredentialsFailWithoutExchange ==
    \A c \in Callers :
        (CredentialsIncomplete /\ req[c].op # "testConnection")
        => /\ exchanges[c] = 0
           /\ pc[c] # "authenticating"
           /\ Sent(c) = 0
           /\ pc[c] = "done" => result[c].status = "thrown"

\* the ttl a get is to store its result with
ExpectedTtl(endpoint, cacheOptions) ==
    IF cacheOptions # <<>> THEN cacheOptions[1]
    ELSE IF Includes(endpoint, "mailboxes") /\ ~Includes(endpoint, "conversations") THEN 1440
    ELSE 300

(* C27: a get that missed the cache and was answered 2xx stores the payload under
   its key with the ttl of its cacheOptions when one is given, 0 included, and
   otherwise with 1440 for an endpoint containing /mailboxes and not
   /conversations, and 300 for every other endpoint. *)
C27_CacheTtlChoice ==
    [][\A c \in Callers :
          (/\ Received(c)
           /\ req[c].op = "get"
           /\ Last(hist'[c]).sent
           /\ Success(Last(hist'[c]).out.status))
          => LET key == cacheKey(req[c].endpoint, req[c].params)
                 ttl == ExpectedTtl(req[c].endpoint, req[c].cacheOptions)
             IN  cache' = [cache EXCEPT ![key] =
                              [present |-> TRUE, value |-> Last(hist'[c]).out.data,
                               expires |-> now + ttl * 1000]]]_vars

\* /mailboxes/1/conversations stored for 300 s after a retry, and a result stored
\* with the ttl of 0 its caller asked for
C27_Witness ==
    \/ LET key == cacheKey(<<"mailboxes", "1", "conversations">>, UNDEFINED)
       IN  /\ cache[key].present
           /\ cache[key].expires = now + 300 * 1000
           /\ now > 0
    \/ \E c \in Callers :
          /\ req[c].cacheOptions = <<0>>
          /\ pc[c] = "done"
          /\ cache[cacheKey(req[c].endpoint, req[c].params)].present
          /\ cache[cacheKey(req[c].endpoint, req[c].params)].expires = now

\* in this step a request of caller c was handed to the transport
Dispatched(c) == pc'[c] = "inflight" /\ pc[c] # "inflight"

(* C28: after clearIdleConnections() this.httpAgent and this.httpsAgent are agents
   created with the pool configuration the client was constructed with, whatever
   that configuration and however often it was called, and calls still go through. *)
C28_ClearKeepsPoolConfiguration ==
    pool.agent > 0
    => /\ pool.http = AgentOptions(pool.constructed)
       /\ pool.https = AgentOptions(pool.constructed)

\* a client constructed with maxSockets 10 whose agents, after a clear, allow 50
C28_Witness ==
    /\ pool.agent > 0
    /\ pool.constructed.maxSockets = 10
    /\ pool.http.maxSockets = 50
    /\ pool.https.maxSockets = 50
    /\ \E c \in Callers : callNo[c] = 2 /\ pc[c] = "done" /\ result[c].status = "ok"

\* the part that holds: a call issued after a clear is dispatched and answered
ClientUsableAfterClear ==
    \A c \in Callers :
        (pool.agent > 0 /\ pc[c] = "done" /\ hist[c] # <<>> /\ Success(Last(hist[c]).out.status))
        => result[c].status = "ok"

(* C29: once closePool() has been called no request is dispatched through the
   client any more, and a second closePool() completes and changes nothing but the
   sockets it closes. *)
C29_ClosedPoolDispatchesNothing ==
    [][/\ (pool.closing \/ pool.closes > 0) => \A c \in Callers : ~Dispatched(c)
       /\ (pool.closes = 1 /\ pool'.closes = 2)
          => /\ tokenVars' = tokenVars
             /\ cache' = cache
             /\ pc' = pc
             /\ [pool' EXCEPT !.closes = 1, !.closing = TRUE] = pool]_vars

\* a request in flight through the agents of the constructor after closePool()
\* has completed
C29_Witness ==
    \E c \in Callers :
        /\ pool.closes >= 1
        /\ pool.agent = 0
        /\ pc[c] = "inflight"
        /\ callNo[c] = 2

\* the idempotence part on its own: closePool() can be called again, and the second
\* call completes leaving calls, token and cache as they are
ClosePoolIdempotent ==
    [][(pool.closes = 1 /\ pool'.closes = 2)
       => /\ tokenVars' = tokenVars
          /\ cache' = cache
          /\ pc' = pc]_vars

\* the retry state of the call of caller c
RetryState(c) == <<attempt[c], hist[c], delays[c], wakeAt[c], lastError[c], result[c]>>

(* C30: concurrent calls proceed independently: a step of one call leaves the
   attempt counter, the attempts, the sleeps and the result of every other call as
   they are; a call that fails has had all MaxAttempts attempts of its own; and each
   call, whatever the other does, is eventually over. *)
C30_ConcurrentCallsIndependent ==
    /\ [][\A c \in Callers : ~Moved(c) => RetryState(c)' = RetryState(c)]_vars
    /\ [](\A c \in Callers :
             /\ attempt[c] <= retries
             /\ result[c].status = "thrown" => Len(hist[c]) = MaxAttempts)
    /\ \A c \in Callers : (pc[c] \notin {"idle", "done"}) ~> (pc[c] = "done")

\* a call issued after the other began, answered while the other, having failed
\* three times, is in its third sleep
C30_Witness ==
    \E c, d \in Callers :
        /\ c # d
        /\ callNo[c] = 1 /\ pc[c] = "sleeping" /\ attempt[c] = 2 /\ Len(hist[c]) = 3
        /\ callNo[d] = 2 /\ pc[d] = "done" /\ result[d].status = "ok"
        /\ Len(hist[d]) = 2

\* the finished call of c is a post whose request was answered and resolved
PostAnswered(c) ==
    /\ pc[c] = "done"
    /\ req[c].op = "post"
    /\ result[c].status = "ok"
    /\ hist[c] # <<>>

(* C31: post returns the payload of the response, with id set to the integer parsed
   from the Resource-ID header whenever the response carries that header, and the
   payload alone, no id added, when it does not. *)
C31_PostFoldsResourceId ==
    \A c \in Callers :
        PostAnswered(c) =>
            LET out == Last(hist[c]).out
            IN  /\ result[c].value = out.data
                /\ out.resourceId = AbsentHeader => result[c].id = <<>>
                /\ out.resourceId # AbsentHeader
                   => /\ Len(result[c].id) = 1
                      /\ result[c].id[1] \in Nat
                      /\ result[c].id[1] = parseInt(out.resourceId)

\* a post answered 201 with a Resource-ID header holding no number: the id of the
\* returned payload is NaN
C31_Witness ==
    \E c \in Callers :
        /\ PostAnswered(c)
        /\ Last(hist[c]).out.resourceId = <<"a", "b", "c">>
        /\ result[c].id = <<NaN>>

\* what post does for every header: the id is parseInt of a present header, which is
\* an integer exactly when the header begins with a digit
PostIdIsParseIntOfHeader ==
    \A c \in Callers :
        PostAnswered(c) =>
            LET out == Last(hist[c]).out
            IN  /\ result[c].value = out.data
                /\ result[c].id = IF out.resourceId = AbsentHeader THEN <<>>
                                  ELSE <<parseInt(out.resourceId)>>
                /\ (out.resourceId # AbsentHeader /\ Head(out.resourceId) \in Digits)
                   => result[c].id[1] \in Nat

\* the default policy read on a transport outcome: no response, a client-side
\* timeout, a 5xx, a 429
PolicyRetries(out) ==
    \/ out.status = 0
    \/ out.code = "ECONNABORTED"
    \/ ServerError(out.status)
    \/ out.status = 429

\* the last attempt of c was dispatched and did not succeed, and the call has acted
\* on it
ActedOnFailure(c) ==
    /\ pc[c] \in {"sleeping", "done"}
    /\ hist[c] # <<>>
    /\ Last(hist[c]).sent
    /\ ~Success(Last(hist[c]).out.status)

(* C32: the retry decision is taken on the failed attempt's own transport outcome:
   the error executeWithRetry holds carries the response status of that attempt,
   the attempt is retried exactly when attempts are left and the outcome is no
   response, a client-side timeout, a 5xx or a 429, and otherwise the call ends at
   once. *)
C32_RetryDecidedOnTransportOutcome ==
    \A c \in Callers :
        ActedOnFailure(c) =>
            LET out == Last(hist[c]).out
            IN  /\ lastError[c].hasResponse = (out.status # 0)
                /\ out.status # 0 => lastError[c].status = out.status
                /\ (pc[c] = "sleeping") <=> (Len(hist[c]) <= retries /\ PolicyRetries(out))
                /\ ~PolicyRetries(out) => result[c].status = "thrown"

\* a request answered 500: the call sleeps before its retry, and the error the
\* predicate was applied to has no response and no status
C32_Witness ==
    \E c \in Callers :
        /\ ActedOnFailure(c)
        /\ pc[c] = "sleeping"
        /\ Last(hist[c]).out.status = 500
        /\ lastError[c].type = "ApiError"
        /\ ~lastError[c].hasResponse

\* what the loop does instead: the value it catches is never one the default
\* predicate rejects, so a call that throws has used all its attempts
PredicateNeverRejects ==
    \A c \in Callers :
        /\ lastError[c].type # "none" => retryCondition(lastError[c]) /\ ~IsRateLimited(lastError[c])
        /\ result[c].status = "thrown" => Len(hist[c]) = MaxAttempts

(* C33: every attempt of a call, the retries included, runs ensureAuthenticated
   before it is dispatched, so a request in flight carries a token that was unexpired
   when it was sent, also when the token ran out during the backoff before it; and an
   attempt that ends in a failed authentication takes one of the call's attempts. *)
C33_EveryAttemptReauthenticates ==
    \A c \in Callers :
        /\ pc[c] = "inflight"
           => /\ TokenValid(accessToken, tokenExpiresAt, now)
              /\ header[c] = accessToken
        /\ pc[c] \in {"request", "authenticating", "authenticated", "inflight"}
           => Len(hist[c]) = attempt[c]
        /\ pc[c] = "sleeping" => Len(hist[c]) = attempt[c] + 1
        /\ Len(hist[c]) <= MaxAttempts

\* the third attempt in flight with a token of the call's third exchange: the first
\* was answered 500 and its token ran out during the backoff, the second ended in
\* a failed token exchange
C33_Witness ==
    \E c \in Callers :
        /\ pc[c] = "inflight"
        /\ attempt[c] = 2
        /\ Len(hist[c]) = 2
        /\ hist[c][1].sent /\ hist[c][1].out.status = 500
        /\ ~hist[c][2].sent
        /\ exchanges[c] = 3
        /\ now >= 3000

\* the token and the expiry the authentication of caller c stores at time t
StoredBy(c, t) ==
    IF StaticTokenConfigured THEN <<StaticToken, t + twentyFourHours>>
    ELSE <<ExchangeResponse(c).access_token,
           t + 1000 * ExchangeResponse(c).expires_in - 60000>>

(* C34: whenever accessToken is non-null, accessToken and tokenExpiresAt are the
   pair one authentication wrote: under no interleaving of concurrent
   authentications is the token of one exchange cached with the expiry of
   another. *)
C34_TokenAndExpiryFromOneAuthentication ==
    accessToken # NULL
    => \E c \in Callers : <<accessToken, tokenExpiresAt>> = StoredBy(c, now)

\* the exchanges of both callers overlapped and both completed, a's first: a's
\* request went out with a's token, and the cached pair is the one b's exchange
\* returned
C34_Witness ==
    /\ pc["a"] = "inflight" /\ exchanges["a"] = 1 /\ header["a"] = "t1"
    /\ pc["b"] = "authenticated" /\ exchanges["b"] = 1
    /\ <<accessToken, tokenExpiresAt>> = <<"t2", -30000>>

\* caller c, about to be dispatched, finds the token absent or expired
FindsNoValidToken(c) ==
    /\ pc[c] = "request"
    /\ pc'[c] # "request"
    /\ ~CachedTokenUnexpired
    /\ ~StaticTokenConfigured

(* C35: the token exchange is not single-flight: every attempt that finds the token
   absent or expired starts an exchange of its own, whether or not another exchange
   is under way, and every exchange that completes overwrites the cached token and
   expiry with its own, so that the cached pair is that of the exchange that
   completed last. *)
C35_ExchangesAreNotCoalesced ==
    [][\A c \in Callers :
          /\ FindsNoValidToken(c)
             => /\ pc'[c] = "authenticating"
                /\ exchanges'[c] = exchanges[c] + 1
          /\ Exchanged(c)
             => <<accessToken', tokenExpiresAt'>> = StoredBy(c, now)]_vars

\* two exchanges under way at once, each caller having started its own, after
\* which a's completed first and b's last: the cached pair is b's
C35_Witness ==
    /\ exchanges["a"] = 1 /\ exchanges["b"] = 1
    /\ callNo["a"] = 1 /\ callNo["b"] = 2
    /\ pc["a"] = "authenticated" /\ pc["b"] = "authenticated"
    /\ accessToken = ExchangeResponse("b").access_token
    /\ tokenExpiresAt = TokenExpiry(now, ExchangeResponse("b").expires_in)

(* C36: after clearIdleConnections() the agents that carry the client's requests
   are the agents getPoolStats() reads, this.httpAgent and this.httpsAgent as
   recreated: a request in flight goes through them, not through the destroyed
   ones. *)
C36_RequestsUseReportedAgents ==
    \A c \in Callers :
        (pool.agent > 0 /\ pc[c] = "inflight") => pool.clientAgent = pool.agent

\* a call issued after a clear, in flight through the agents of the constructor
\* while this.httpAgent and this.httpsAgent are the recreated ones
C36_Witness ==
    \E c \in Callers :
        /\ pool.agent = 1
        /\ pool.clientAgent = 0
        /\ pool.closes = 0 /\ ~pool.closing
        /\ callNo[c] = 2
        /\ hist[c] = <<>>
        /\ pc[c] = "inflight"

\* the agents of the axios instance are those it was created with, for good
ClientKeepsConstructorAgents == pool.clientAgent = 0

\* the cache key of the call caller c is making
KeyOf(c) == cacheKey(req[c].endpoint, req[c].params)

(* C37: identical gets issued while no live entry exists are not coalesced: each
   one that misses the cache goes on to a request of its own, whether or not the
   same get of another caller is under way, and each one writes the entry when its
   response arrives, so that the entry holds the response of the call that completed
   last. *)
C37_ReadsAreNotCoalesced ==
    [][\A c \in Callers :
          /\ (Issued(c) /\ ~Truthy(CacheGet(cache, KeyOf(c)', now)))
             => /\ pc'[c] = "request"
                /\ cache' = cache
          /\ (Received(c) /\ Success(Last(hist'[c]).out.status))
             => /\ cache'[KeyOf(c)].present
                /\ cache'[KeyOf(c)].value = Last(hist'[c]).out.data
                /\ result'[c] = Returned(Last(hist'[c]).out.data, <<>>)]_vars

\* both callers missed the cache and were answered by requests of their own, d1 to
\* the first and d2 to the second; the entry holds d2
C37_Witness ==
    /\ callNo["a"] = 1 /\ callNo["b"] = 2
    /\ \A c \in Callers : pc[c] = "done" /\ Len(hist[c]) = 1 /\ hist[c][1].sent
    /\ result["a"] = Returned("d1", <<>>)
    /\ result["b"] = Returned("d2", <<>>)
    /\ cache[KeyOf("a")].value = "d2"

\* the entry testConnection's get looks up
ConnectionTestKey == cacheKey(Mailboxes, PageOneSizeOne)

\* a testConnection() issued in this step by c is answered true at once, without an
\* authentication and without a request
AnsweredFromCache(c) ==
    /\ pc'[c] = "done"
    /\ result'[c] = Returned("true", <<>>)
    /\ hist'[c] = <<>>
    /\ exchanges'[c] = 0
    /\ tokenVars' = tokenVars

(* C38: while the entry a successful get('/mailboxes', {page: 1, size: 1}) wrote is
   within its TTL, testConnection() returns true from the cache: it does not
   authenticate and sends nothing, so its answer does not depend on the upstream
   service or on the credentials. *)
C38_TestConnectionAnsweredFromCache ==
    [][\A c \in Callers :
          (/\ Issued(c)
           /\ req'[c].op = "testConnection"
           /\ Live(cache, ConnectionTestKey, now)
           /\ cache[ConnectionTestKey].value \in Payloads)
          => AnsweredFromCache(c)]_vars

\* a testConnection() in flight to the upstream service although the entry of a get
\* answered 200 with an empty body is within its TTL
C38_Witness ==
    \E c \in Callers :
        /\ req[c].op = "testConnection"
        /\ callNo[c] = 2
        /\ pc[c] = "inflight"
        /\ Live(cache, ConnectionTestKey, now)
        /\ cache[ConnectionTestKey] = [present |-> TRUE, value |-> EmptyBody,
                                       expires |-> 1440 * 1000]

\* the same for an entry holding a truthy payload: testConnection() is answered from
\* the cache
TestConnectionServedFromTruthyEntry ==
    [][\A c \in Callers :
          (/\ Issued(c)
           /\ req'[c].op = "testConnection"
           /\ Truthy(CacheGet(cache, ConnectionTestKey, now)))
          => AnsweredFromCache(c)]_vars

\* the user query and the history validateToolCall works with
QueryOf(context) == IF context.userQuery.t = "undefined" THEN <<>> ELSE context.userQuery.s
HistoryOf(context) ==
    IF context.previousCalls.t = "undefined" THEN <<>> ELSE context.previousCalls.s

\* requiredPrerequisites contains name
Requires(r, name) ==
    r.requiredPrerequisites.defined
    /\ \E i \in DOMAIN r.requiredPrerequisites.items : r.requiredPrerequisites.items[i] = name

\* a searchConversations call whose query mentions an inbox and whose arguments
\* hold no string inboxId
MentionWithoutInboxId(context) ==
    /\ context.toolName = "searchConversations"
    /\ detectInboxMention(QueryOf(context))
    /\ ~IsString(context.arguments.inboxId)

(* C39: for searchConversations, whatever the earlier calls, a query that mentions
   an inbox together with arguments holding no string inboxId is invalid, and
   requiredPrerequisites then contains 'searchInboxes' exactly when 'searchInboxes'
   is not among the earlier calls; every result of validateToolCall has isValid true
   exactly when errors is empty; and a tool name without a case is always valid. *)
C39_ValidateToolCall ==
    validation.done
    => /\ MentionWithoutInboxId(toolCall)
          => /\ ~validation.isValid
             /\ Requires(validation, "searchInboxes")
                <=> ~(\E i \in DOMAIN HistoryOf(toolCall) :
                         HistoryOf(toolCall)[i] = "searchInboxes")
       /\ validation.isValid <=> validation.errors = <<>>
       /\ toolCall.toolName \notin KnownTools => validation.isValid

\* a query that names an inbox by pattern only, no inboxId, and searchInboxes called
\* before another call: invalid, with no prerequisite
C39_Witness ==
    /\ validation.done
    /\ MentionWithoutInboxId(toolCall)
    /\ QueryOf(toolCall) = <<"t", "i", "c", "k", "e", "t", "s", " ", "i", "n", " ", "m",
                             "y", " ", "q", "u", "e", "u", "e">>
    /\ toolCall.arguments.inboxId = Num
    /\ HistoryOf(toolCall) = <<"searchInboxes", "searchConversations">>
    /\ ~validation.isValid
    /\ ~validation.requiredPrerequisites.defined

====
